---------------------------- MODULE CatalogProofs ----------------------------
(***************************************************************************)
(* Theorems of CatalogRefresh and of CatalogScreen, for every set of       *)
(* catalogs and every bound.                                               *)
(*                                                                         *)
(* NeverOlder rests on an order between the places that hold a catalog's   *)
(* text: what was shown is no newer than what is in memory, that no newer  *)
(* than the file, that no newer than the server's, as far as each holds    *)
(* one at all; and what the worker has in hand is no older than memory.    *)
(*                                                                         *)
(* The screen has no lock: that a removal has the client to itself, and    *)
(* that a queue has its job, is what its many handlers leave to each       *)
(* other.  ScreenInv is what they leave: how each queue and the job agree  *)
(* (Sound), that no queue has been told of a result it has not acted on    *)
(* (Unseen), and what is known of them only at one place of a frame.  The  *)
(* storage menu is where this is delicate: START may open it between the   *)
(* last job of the plugin queue and the next one, and so before a removal  *)
(* can start the queue must be down to its last plugin, or that plugin's   *)
(* result must still be unread (AtPoll, AtInput, AtTouch).                 *)
(*                                                                         *)
(* RestartInv adds who remembers a restart that is owed (Due), and where a *)
(* plugin chosen by hand has its dialog (Attended, Handy): the buttons are *)
(* read only where its result cannot be overwritten unseen.                *)
(*                                                                         *)
(* A handler maps a world to worlds, so the proof follows the screen: a    *)
(* lemma per handler over one world, a lemma per layer that answers, and   *)
(* only then the actions.                                                  *)
(***************************************************************************)
EXTENDS CatalogRefresh, CatalogScreen, SequenceTheorems, TLAPS

-----------------------------------------------------------------------------
(* Types *)

LEMMA FirstVersions == {0, 1} \subseteq Version
  BY BoundAssumption DEF Version

LEMMA NoWorkType == NoWork \in Local
  BY HomebrewAssumption, FirstVersions DEF NoWork, Local

LEMMA TypeInit == RefreshInit => TypeOK
  <1> SUFFICES ASSUME RefreshInit PROVE TypeOK
    OBVIOUS
  <1> USE DEF RefreshInit
  <1>1. /\ displayed \in Items /\ ready \in Items
        /\ mem \in [Catalog -> Version] /\ best \in [Catalog -> Version]
        /\ remote \in [Catalog -> Version]
    BY HomebrewAssumption, FirstVersions DEF Items
  <1>2. disk \in [Catalog -> Version] /\ meta \in [Catalog -> Version]
    BY FirstVersions
  <1>3. w \in Local
    BY NoWorkType
  <1>4. /\ switches \in 0 .. MaxSwitches /\ fileFaults \in 0 .. MaxFileFaults
        /\ launches \in 0 .. MaxLaunches
    BY BoundAssumption
  <1>5. QED
    BY <1>1, <1>2, <1>3, <1>4, HomebrewAssumption DEF TypeOK

LEMMA TypeScreen ==
  ASSUME TypeOK, Frame \/ (\E n \in Catalog : Switch(n)) \/ Exit
  PROVE  TypeOK'
  <1> USE DEF TypeOK, Items, Version
  <1>1. CASE NoSwitch
    BY <1>1 DEF NoSwitch, manager, worker, files, bounds
  <1>2. CASE Poll
    BY <1>2 DEF Poll, manager, worker, files, bounds
  <1>3. CASE Take
    <2>1. ready \in Items /\ ready'  \in Items
      BY <1>3, FirstVersions DEF Take, TakeReady
    <2>2. displayed' \in Items /\ startup' \in BOOLEAN /\ best' \in [Catalog -> Version]
      BY <1>3, <2>1 DEF Take, TakeReady
    <2>3. QED
      BY <1>3, <2>1, <2>2 DEF Take, TakeReady, worker, files, bounds
  <1>4. CASE Cover
    BY <1>4 DEF Cover, manager, worker, files, bounds
  <1>5. ASSUME NEW n \in Catalog, Switch(n)
        PROVE  TypeOK'
    <2>1. displayed' \in Items /\ requested' \in Catalog /\ mem' = mem
      BY <1>5, FirstVersions DEF Switch, Request
    <2>2. gen' \in Nat
      BY <1>5 DEF Switch, Request
    <2>3. pending' \in BOOLEAN
      <3>1. pending' = pending \/ pending' = TRUE \/ pending' = FALSE
        BY <1>5, Zenon DEF Switch, Request
      <3>2. QED
        BY <3>1, Zenon
    <2>4. st' \in {"Loading", "Ready", "Failed"}
      BY <1>5 DEF Switch, Request
    <2>5. ready' \in Items
      BY <1>5 DEF Switch, Request
    <2>6. switches' \in 0 .. MaxSwitches
      BY <1>5, BoundAssumption DEF Switch
    <2>7. QED
      BY <1>5, <2>1, <2>2, <2>3, <2>4, <2>5, <2>6 DEF Switch, worker, files
  <1>6. CASE Exit
    BY <1>6 DEF Exit, manager, worker, files, bounds
  <1>7. QED
    BY <1>1, <1>2, <1>3, <1>4, <1>5, <1>6 DEF Frame

LEMMA TypeWork ==
  ASSUME TypeOK, Work \/ DownloadProgress
  PROVE  TypeOK'
  <1> USE BoundAssumption, HomebrewAssumption
      DEF TypeOK, Items, Version, Local, quiet, screen, files, worker, To, Hold,
          Fault, SetState, Discard, Publish
  <1>1. CASE Begin
    <2>1. w' \in Local
      BY <1>1, NoWorkType DEF Begin
    <2>2. QED
      BY <1>1, <2>1 DEF Begin
  <1>2. CASE End
    BY <1>2 DEF End, manager
  <1>3. CASE ReadDisk
    BY <1>3 DEF ReadDisk, manager
  <1>4. CASE ShowCopy
    BY <1>4 DEF ShowCopy, manager
  <1>5. CASE Check
    BY <1>5 DEF Check, manager
  <1>6. CASE Wait
    BY <1>6 DEF Wait, manager
  <1>7. CASE Consumed
    BY <1>7 DEF Consumed, manager
  <1>8. CASE Soft
    BY <1>8 DEF Soft, manager
  <1>9. CASE Hard
    BY <1>9 DEF Hard, manager
  <1>10. CASE Unchanged
    BY <1>10 DEF Unchanged, KeepCopy, manager
  <1>11. CASE Offline
    BY <1>11 DEF Offline, KeepCopy, manager
  <1>12. CASE Outdated
    BY <1>12 DEF Outdated
  <1>13. CASE Download
    BY <1>13 DEF Download, manager
  <1>14. CASE Identical
    BY <1>14 DEF Identical, manager
  <1>15. CASE Parse
    BY <1>15 DEF Parse, manager
  <1>16. CASE Rename
    BY <1>16 DEF Rename, manager
  <1>17. CASE Tag
    BY <1>17 DEF Tag, manager
  <1>18. CASE GiveUp
    BY <1>18 DEF GiveUp, manager
  <1>19. CASE Fresh
    BY <1>19 DEF Fresh, manager
  <1>20. CASE Swap
    BY <1>20 DEF Swap, manager
  <1>21. CASE Judge
    BY <1>21 DEF Judge, manager
  <1>22. CASE DownloadProgress
    BY <1>22 DEF DownloadProgress
  <1>23. QED
    BY <1>1, <1>2, <1>3, <1>4, <1>5, <1>6, <1>7, <1>8, <1>9, <1>10, <1>11, <1>12,
       <1>13, <1>14, <1>15, <1>16, <1>17, <1>18, <1>19, <1>20, <1>21, <1>22
    DEF Work

LEMMA TypeNext == TypeOK /\ [RefreshNext]_refreshVars => TypeOK'
  <1> SUFFICES ASSUME TypeOK, [RefreshNext]_refreshVars
               PROVE  TypeOK'
    OBVIOUS
  <1>1. CASE Frame \/ (\E n \in Catalog : Switch(n)) \/ Exit
    BY <1>1, TypeScreen
  <1>2. CASE Work \/ DownloadProgress
    BY <1>2, TypeWork
  <1>3. ASSUME NEW c \in Catalog, NewVersion(c)
        PROVE  TypeOK'
    BY <1>3, BoundAssumption
    DEF NewVersion, TypeOK, Version, screen, manager, worker, files, bounds
  <1>4. CASE Relaunch
    <2>1. w' \in Local
      BY <1>4, NoWorkType DEF Relaunch
    <2>2. displayed' \in Items /\ ready' \in Items /\ mem' \in [Catalog -> Version]
      BY <1>4, HomebrewAssumption, FirstVersions DEF Relaunch, Items
    <2>3. launches' \in 0 .. MaxLaunches
      BY <1>4, BoundAssumption DEF Relaunch, TypeOK
    <2>4. QED
      BY <1>4, <2>1, <2>2, <2>3, HomebrewAssumption DEF Relaunch, TypeOK, files
  <1>5. CASE UNCHANGED refreshVars
    BY <1>5 DEF refreshVars, TypeOK, screen, manager, worker, files, bounds
  <1>6. QED
    BY <1>1, <1>2, <1>3, <1>4, <1>5 DEF RefreshNext

\* The state keeps its type (the fields of CatalogManager, the locals of its
\* worker, the screen, the files).
THEOREM TypeCorrect == RefreshSpec => []TypeOK
  <1>1. RefreshInit => TypeOK
    BY TypeInit
  <1>2. TypeOK /\ [RefreshNext]_refreshVars => TypeOK'
    BY TypeNext
  <1>3. QED
    BY <1>1, <1>2, PTL DEF RefreshSpec

-----------------------------------------------------------------------------
(* The screen keeps the catalog asked for *)

TabInv == displayed.ver # 0 /\ displayed.cat = requested /\ ready.ver # 0 => ready.cat = requested

LEMMA TabNext ==
  ASSUME TypeOK, TabInv, [RefreshNext]_refreshVars
  PROVE  TabInv'
  <1> USE DEF TypeOK, TabInv, Items
  <1> USE DEF quiet, screen, worker, manager, files, bounds, Discard, SetState
  <1>1. CASE ShowCopy \/ Swap \/ Judge
    BY <1>1 DEF ShowCopy, Swap, Judge, Publish, Stale
  <1>2. CASE Begin \/ End \/ ReadDisk \/ Check \/ Wait \/ Consumed \/ Soft \/ Hard
    BY <1>2 DEF Begin, End, ReadDisk, Check, Wait, Consumed, Soft, Hard
  <1>3. CASE Unchanged \/ Offline \/ Outdated \/ Download \/ DownloadProgress \/ Identical
    BY <1>3 DEF Unchanged, Offline, Outdated, Download, DownloadProgress, Identical, KeepCopy
  <1>4. CASE Parse \/ Rename \/ Tag \/ GiveUp \/ Fresh
    BY <1>4 DEF Parse, Rename, Tag, GiveUp, Fresh
  <1>5. CASE NoSwitch \/ Poll \/ Cover \/ Exit
    BY <1>5 DEF NoSwitch, Poll, Cover, Exit
  <1>6. CASE Take
    BY <1>6 DEF Take, TakeReady
  <1>7. ASSUME NEW n \in Catalog, Switch(n)
        PROVE  TabInv'
    BY <1>7 DEF Switch
  <1>8. ASSUME NEW c \in Catalog, NewVersion(c)
        PROVE  TabInv'
    BY <1>8 DEF NewVersion
  <1>9. CASE Relaunch
    BY <1>9 DEF Relaunch
  <1>10. CASE UNCHANGED refreshVars
    BY <1>10 DEF refreshVars
  <1>11. QED
    BY <1>1, <1>2, <1>3, <1>4, <1>5, <1>6, <1>7, <1>8, <1>9, <1>10
    DEF RefreshNext, Frame, Work

TabStays ==
  displayed.ver # 0 /\ displayed.cat = requested /\ requested' = requested /\ launches' = launches
    => displayed'.cat = requested /\ displayed'.ver # 0

\* Only Take and Switch touch the screen, and only a new launch empties it.
LEMMA TabStep ==
  ASSUME TypeOK, TabInv, [RefreshNext]_refreshVars
  PROVE  TabStays
  <1> USE DEF TypeOK, TabStays, Items
  <1>1. CASE Work \/ DownloadProgress
    <2>1. displayed' = displayed
      BY <1>1
      DEF Work, quiet, screen, Begin, End, ReadDisk, ShowCopy, Check, Wait, Consumed, Soft,
          Hard, Unchanged, Offline, Outdated, DownloadProgress, Download, Identical, Parse,
          Rename, Tag, GiveUp, Fresh, Swap, Judge
    <2>2. QED
      BY <2>1
  <1>2. CASE NoSwitch \/ Poll \/ Cover \/ Exit
    BY <1>2 DEF NoSwitch, Poll, Cover, Exit
  <1>3. CASE Take
    BY <1>3 DEF Take, TakeReady, TabInv
  <1>4. ASSUME NEW n \in Catalog, Switch(n)
        PROVE  TabStays
    BY <1>4 DEF Switch, Request
  <1>5. ASSUME NEW c \in Catalog, NewVersion(c)
        PROVE  TabStays
    BY <1>5 DEF NewVersion, screen
  <1>6. CASE Relaunch
    BY <1>6 DEF Relaunch
  <1>7. CASE UNCHANGED refreshVars
    BY <1>7 DEF refreshVars, screen
  <1>8. QED
    BY <1>1, <1>2, <1>3, <1>4, <1>5, <1>6, <1>7 DEF RefreshNext, Frame

\* Once the catalog last asked for is on the screen, no late result of another
\* one replaces it (the generation tests of workerMain around publishReady).
THEOREM TabKept == RefreshSpec => KeepsTab
  <1>1. RefreshInit => TabInv
    BY DEF RefreshInit, TabInv
  <1>2. TypeOK /\ TabInv /\ [RefreshNext]_refreshVars => TabInv'
    BY TabNext
  <1>3. TypeOK /\ TabInv /\ [RefreshNext]_refreshVars => [TabStays]_refreshVars
    BY TabStep
  <1>4. QED
    BY <1>1, <1>2, <1>3, TypeCorrect, PTL DEF RefreshSpec, KeepsTab, TabStays

-----------------------------------------------------------------------------
(* What is shown never goes back *)

\* Of each catalog: what was shown, memory, the file, the server, in this order.
Ordered ==
    \A c \in Catalog :
        /\ mem[c] <= remote[c] /\ disk[c] <= remote[c] /\ best[c] <= remote[c]
        /\ mem[c] # 0 => best[c] <= mem[c]
        /\ disk[c] # 0 => best[c] <= disk[c] /\ mem[c] <= disk[c]

\* What waits for the screen is what memory holds.
ReadyIsMem == ready.ver # 0 => ready.ver = mem[ready.cat]

\* What the worker holds is no older than memory; before it is published it is
\* the file's text, unless the load has nothing.
InHand ==
    /\ w.ver # 0 => /\ mem[w.cat] <= w.ver /\ best[w.cat] <= w.ver
                    /\ w.ver <= remote[w.cat]
    /\ task \in {"show", "tag", "fresh", "swap", "judge"} /\ w.ver # 0
         => disk[w.cat] = w.ver
    /\ task \in {"disk", "hard"} => w.ver = 0

OrderInv == Ordered /\ ReadyIsMem /\ InHand /\ NeverOlder

LEMMA OrderScreen ==
  ASSUME TypeOK, TypeOK', OrderInv,
         Frame \/ (\E n \in Catalog : Switch(n)) \/ Exit
  PROVE  OrderInv'
  <1> USE DEF OrderInv, Ordered, ReadyIsMem, InHand, NeverOlder, TypeOK, Items, Local,
              Version
  <1>1. CASE NoSwitch \/ Poll \/ Cover \/ Exit
    BY <1>1 DEF NoSwitch, Poll, Cover, Exit, manager, worker, files
  <1>2. CASE Take
    <2>1. CASE ready.ver # 0 /\ (startup => ready.cat = Homebrew)
      <3>1. /\ best' = [best EXCEPT ![ready.cat] = ready.ver]
            /\ ready.ver = mem[ready.cat]
        BY <1>2, <2>1 DEF Take, TakeReady
      <3>2. Ordered' /\ InHand'
        BY <1>2, <3>1, <2>1 DEF Take, TakeReady, worker, files
      <3>3. ReadyIsMem' /\ NeverOlder'
        BY <1>2, <3>1, <2>1 DEF Take, TakeReady
      <3>4. QED
        BY <3>2, <3>3
    <2>2. CASE ~(ready.ver # 0 /\ (startup => ready.cat = Homebrew))
      BY <1>2, <2>2 DEF Take, TakeReady, worker, files
    <2>3. QED
      BY <2>1, <2>2
  <1>3. ASSUME NEW n \in Catalog, Switch(n)
        PROVE  OrderInv'
    <2>1. mem' = mem /\ displayed'.ver = 0 /\ UNCHANGED <<worker, files, remote, best>>
      BY <1>3 DEF Switch, Request
    <2>2. ReadyIsMem'
      BY <1>3, <2>1 DEF Switch, Request
    <2>3. QED
      BY <2>1, <2>2 DEF worker, files
  <1>4. QED
    BY <1>1, <1>2, <1>3 DEF Frame

LEMMA OrderPublish ==
  ASSUME TypeOK, TypeOK', OrderInv, ShowCopy \/ Swap \/ Judge
  PROVE  OrderInv'
  <1> USE DEF OrderInv, Ordered, ReadyIsMem, InHand, NeverOlder, TypeOK, Items, Local,
              Version
  <1>1. /\ UNCHANGED <<files, remote, best, displayed, w>>
        /\ task \in {"show", "swap", "judge"} /\ task' \in {"check", "idle"}
    BY DEF ShowCopy, Swap, Judge, quiet, screen, To
  <1>2. CASE Publish
    <2>1. Ordered'
      BY <1>1, <1>2 DEF Publish, files
    <2>2. ReadyIsMem' /\ NeverOlder'
      BY <1>1, <1>2 DEF Publish
    <2>3. InHand'
      BY <1>1, <1>2 DEF Publish
    <2>4. QED
      BY <2>1, <2>2, <2>3
  <1>3. CASE UNCHANGED <<mem, ready>>
    BY <1>1, <1>3 DEF files
  <1>4. QED
    BY <1>2, <1>3 DEF ShowCopy, Swap, Judge, manager, Discard, SetState

LEMMA OrderWork ==
  ASSUME TypeOK, TypeOK', OrderInv, Work \/ DownloadProgress, ~(ShowCopy \/ Swap \/ Judge)
  PROVE  OrderInv'
  <1> USE DEF OrderInv, Ordered, ReadyIsMem, InHand, NeverOlder, TypeOK, Items, Local,
              Version
  <1>1. UNCHANGED <<mem, ready, remote, best, displayed>>
    BY DEF Work, quiet, screen, manager, Begin, End, ReadDisk, Check, Wait, Consumed,
           Soft, Hard, Unchanged, Offline, Outdated, DownloadProgress, Download, Identical,
           Parse, Rename, Tag, GiveUp, Fresh, KeepCopy, SetState, Discard
  <1>2. CASE Begin \/ End \/ Check \/ Wait \/ Consumed \/ Soft \/ Fresh \/ DownloadProgress
    BY <1>1, <1>2, NoWorkType, ZenonT(40)
    DEF Begin, End, Check, Wait, Consumed, Soft, Fresh, DownloadProgress, To, files, worker,
        NoWork
  <1>3. CASE ReadDisk \/ Hard
    BY <1>1, <1>3 DEF ReadDisk, Hard, To, Hold, files
  <1>4. CASE Unchanged \/ Offline \/ Outdated
    BY <1>1, <1>4 DEF Unchanged, Offline, Outdated, KeepCopy, To, Hold, files
  <1>5. CASE Download \/ GiveUp
    BY <1>1, <1>5 DEF Download, GiveUp, To, Hold, files
  <1>6. CASE Identical \/ Tag
    BY <1>1, <1>6 DEF Identical, Tag, To
  <1>7. CASE Parse
    BY <1>1, <1>7 DEF Parse, To
  <1>8. CASE Rename
    BY <1>1, <1>8 DEF Rename, To
  <1>9. QED
    BY <1>2, <1>3, <1>4, <1>5, <1>6, <1>7, <1>8 DEF Work

LEMMA OrderNext ==
  ASSUME TypeOK, TypeOK', OrderInv, [RefreshNext]_refreshVars
  PROVE  OrderInv'
  <1> USE DEF OrderInv, Ordered, ReadyIsMem, InHand, NeverOlder
  <1>1. CASE Frame \/ (\E n \in Catalog : Switch(n)) \/ Exit
    BY <1>1, OrderScreen
  <1>2. CASE Work \/ DownloadProgress
    BY <1>2, OrderPublish, OrderWork
  <1>3. ASSUME NEW c \in Catalog, NewVersion(c)
        PROVE  OrderInv'
    BY <1>3
    DEF NewVersion, TypeOK, Version, Items, Local, screen, manager, worker, files
  <1>4. CASE Relaunch
    BY <1>4 DEF Relaunch, TypeOK, Version, Items, NoWork, files
  <1>5. CASE UNCHANGED refreshVars
    BY <1>5 DEF refreshVars, screen, manager, worker, files
  <1>6. QED
    BY <1>1, <1>2, <1>3, <1>4, <1>5 DEF RefreshNext

\* Nothing the screen shows of a catalog is older than what it ever showed of it,
\* also after a restart (publishReady, cachedItems_, the replacement of the file).
THEOREM NewestShown == RefreshSpec => []NeverOlder
  <1>1. RefreshInit => OrderInv
    BY HomebrewAssumption
    DEF RefreshInit, OrderInv, Ordered, ReadyIsMem, InHand, NeverOlder, NoWork
  <1>2. TypeOK /\ TypeOK' /\ OrderInv /\ [RefreshNext]_refreshVars => OrderInv'
    BY OrderNext
  <1>3. OrderInv => NeverOlder
    BY DEF OrderInv
  <1>4. QED
    BY <1>1, <1>2, <1>3, TypeCorrect, PTL DEF RefreshSpec

-----------------------------------------------------------------------------
(* The catalog screen: what is known of a world *)

Fields == {"b", "e", "i", "s", "reboot", "view", "faults", "t", "open", "ui", "work", "stage"}

\* The records a world is made of have their fields.
Shape(u) ==
    /\ DOMAIN u = Fields
    /\ DOMAIN u.b = DOMAIN NoBatch /\ DOMAIN u.e = DOMAIN NoQueue /\ DOMAIN u.i = DOMAIN NoJob
    /\ DOMAIN u.s = {"active", "outcome", "zip"} /\ DOMAIN u.t = DOMAIN NoTruth
    /\ DOMAIN u.ui = {"mode", "back", "tab", "list", "sel", "filter", "loading", "psp", "sure",
                      "ask"}
    /\ u.b.phase \in {"Hidden", "Confirm", "PickDownload", "PickGameFiles", "PickDataFiles",
                      "PickPlugin", "SpaceWarning", "Running", "Summary"}
    /\ u.ui.filter \in {"all", "some", "state"}
    /\ u.open \subseteq Dialogs
    /\ u.view \in Seq(Apps) /\ u.ui.list \in Seq(Apps) /\ u.ui.tab \in Tabs

\* The storage menu is open; a plugin has its job, or its result.
AtStorage(u) == "storage" \in u.open
PluginJob(u) == u.i.kind = "plugin" /\ u.i.st \in {"Working", "Paused", "Completed"}

\* A reboot is asked for by a plugin that was copied, and by nothing else; an archive is
\* kept by a job that failed after its download.
JobSound(u) ==
    /\ u.i.kind = "plugin" /\ u.i.st = "Completed" => u.i.reboot
    /\ u.i.reboot => u.i.kind = "plugin" /\ u.i.st = "Completed"
    /\ u.i.zip => u.i.kind \in FileKinds /\ u.i.st = "Failed"

\* The queue of essential plugins runs a job of its own, no step of the batch, and it is
\* never past its end while it runs or while its prompt is open.
EssentialSound(u) ==
    /\ u.e.left \in 0 .. 3
    /\ u.e.running \/ "essential" \in u.open => u.e.left # 0
    /\ u.e.running => "essential" \notin u.open /\ u.e.last = "none"
    /\ u.e.running /\ ~u.t.mixed =>
         /\ u.i.kind = "plugin" /\ u.i.of = 0 /\ u.i.st # "Idle"
         /\ Running(u) => u.b.waiting /\ u.b.resolved

\* A running batch has the job of its step, or that job's failure with an archive to be
\* decided about, or that decision.
BatchSound(u) ==
    Running(u) /\ ~u.t.mixed =>
        \/ ~u.b.waiting /\ u.b.last = "unset" /\ u.i.of = Step(u.b) /\ u.i.st # "Idle"
        \/ /\ u.b.waiting /\ ~u.b.resolved
           /\ u.i.of = Step(u.b) /\ u.i.st = "Failed" /\ u.i.zip
        \/ u.b.waiting /\ u.b.resolved

\* The storage menu opens beside no wizard, and what it removes has no job beside it.
StorageSound(u) ==
    /\ AtStorage(u) => u.b.phase = "Hidden"
    /\ "remove" \in u.work => AtStorage(u) /\ u.i.st \notin {"Working", "Paused"}

\* What the report will rest on: the phases that ask.
Steps == ToSet(Kinds) \cup {"plugin"}
Asking == {"Confirm", "PickDownload", "PickGameFiles", "PickDataFiles", "PickPlugin"}

\* While the wizard asks: what it left out, and what was taken of the application that
\* was there from the beginning.
Asked(u) ==
    /\ u.b.results \in Seq({"Skipped"}) /\ u.b.approved \in Nat /\ DOMAIN u.b.chosen = 1 .. 3
    /\ \A k \in 1 .. 3 :
          u.t.app # NoApp /\ (u.b.chosen[k] = "one" \/ u.b.phase = PickPhase[k])
            => Options[u.t.app][Kinds[k]] > 0

\* The queue and the history have a place for every step.
Queued(b, t) ==
    /\ b.queue \in Seq(Steps) /\ b.skipped \in Nat
    /\ DOMAIN b.results = 1 .. b.skipped + Len(b.queue)
    /\ DOMAIN t.ended = DOMAIN b.results /\ DOMAIN t.kinds = DOMAIN b.results
    /\ \A n \in 1 .. b.skipped : t.kinds[n] = "plugin"
    /\ \A n \in DOMAIN b.queue : t.kinds[b.skipped + n] = b.queue[n]
    /\ b.hasFiles /\ t.app # NoApp => \E n \in DOMAIN b.queue : b.queue[n] \in FileKinds

\* The results before r are true, and those from r on are still open.
Past(b, t, r) ==
    \A n \in 1 .. r - 1 :
        /\ Agrees(b.results[n], t.ended[n])
        /\ b.filesOk /\ t.kinds[n] \in FileKinds => t.ended[n] = "ok"
Future(b, t, r) ==
    \A n \in r .. b.skipped + Len(b.queue) : b.results[n] = "Pending" /\ t.ended[n] = "none"

\* The step the queue is at.
AtStep(u) ==
    /\ u.b.at \in 1 .. Len(u.b.queue)
    /\ ~u.b.waiting =>
         /\ u.i.kind = u.b.queue[u.b.at]
         /\ u.t.ended[Step(u.b)] = IF OutcomeOf(u.i) = "none" THEN "started" ELSE OutcomeOf(u.i)
    /\ u.b.waiting =>
         /\ u.t.ended[Step(u.b)] = "failed"
         /\ u.b.filesOk => u.b.queue[u.b.at] \notin FileKinds
         /\ u.b.resolved => u.b.results[Step(u.b)] \in {"Kept", "Deleted"}

\* The packs of files were installed, and there was one.
Honest(t) ==
    /\ \A n \in DOMAIN t.ended : t.kinds[n] \in FileKinds => t.ended[n] = "ok"
    /\ \E n \in DOMAIN t.ended : t.kinds[n] \in FileKinds

\* The report, while it is asked for, made and shown.
StorySound(u) ==
    ~u.t.mixed =>
      /\ u.b.phase \in Asking => Asked(u)
      /\ Running(u) => /\ Queued(u.b, u.t) /\ Past(u.b, u.t, Step(u.b))
                       /\ Future(u.b, u.t, Step(u.b) + 1) /\ AtStep(u)
      /\ u.b.phase = "Summary" =>
           \A n \in DOMAIN u.b.results : Agrees(u.b.results[n], u.t.ended[n])
      /\ u.t.receipt => u.b.phase \in {"Hidden", "Summary"} /\ (u.t.app # NoApp => Honest(u.t))
      /\ u.i.of # 0 => Running(u) /\ ~(u.b.waiting /\ u.b.resolved)

Sound(u) ==
    /\ Shape(u) /\ JobSound(u) /\ EssentialSound(u) /\ BatchSound(u) /\ StorageSound(u)
    /\ StorySound(u)

\* A queue has not been told of the result of its job.
BatchUnseen(u) == Running(u) /\ ~u.b.waiting /\ ~u.t.mixed => ~u.i.seen
QueueUnseen(u) == u.e.running /\ ~u.t.mixed => ~u.i.seen
Unseen(u) == BatchUnseen(u) /\ QueueUnseen(u)

\* Before the installer is polled.
AtPoll(u) ==
    AtStorage(u) /\ u.e.running /\ PluginJob(u) =>
        \/ u.e.left \in 0 .. 1
        \/ u.e.left = 2 /\ u.i.st = "Completed" /\ "remove" \notin u.work

\* The last poll showed a job that works; a failure with an archive not yet decided about.
Asks(u) == u.s.active /\ u.s.outcome = "none"
Undecided(u) == u.s.outcome = "failed" /\ u.s.zip

\* When the buttons are read: what the last poll showed is what the queues were told.
AtInput(u) ==
    /\ u.b.phase # "Running" /\ u.e.running /\ u.e.left > 2 /\ PluginJob(u) => Asks(u)
    /\ AtStorage(u) /\ u.e.running /\ PluginJob(u) => u.e.left \in 0 .. 1
    /\ Undecided(u) => u.i.st = "Failed" /\ u.i.zip
    /\ Undecided(u) /\ Running(u) /\ ~u.t.mixed => u.b.waiting
\* When the finger is read, after a press.
AtTouch(u) ==
    /\ u.b.phase = "Hidden" /\ u.e.running /\ u.e.left > 2 /\ PluginJob(u) /\ u.i.st # "Working"
         => Asks(u)
    /\ AtStorage(u) /\ u.e.running /\ PluginJob(u) =>
         \/ u.e.left \in 0 .. 1
         \/ u.e.left = 2 /\ u.i.st = "Completed" /\ ~u.ui.sure /\ "remove" \notin u.work
    /\ Undecided(u) /\ Running(u) /\ ~u.t.mixed => u.b.waiting

\* The inductive invariant.
ScreenInv ==
    /\ Sound(Now) /\ Unseen(Now)
    /\ pc \in {"input", "touch", "off"}
    /\ pc = "input" => AtInput(Now)
    /\ pc = "touch" => AtTouch(Now)

-----------------------------------------------------------------------------
(* The steps of the queues *)

\* What the steps of the queues leave alone.
Beside(u, x) ==
    /\ Shape(x)
    /\ x.open = u.open /\ x.work = u.work /\ x.ui = u.ui /\ x.s = u.s /\ x.stage = u.stage

\* The job is left alone, or its result was closed.
Released(u, x) == x.i = u.i \/ (x.i = NoJob /\ u.i.st \in Terminal /\ ~u.i.zip)

\* A job of the batch has just been started for the step its queue is at.
AtWork(x) ==
    /\ x.b.phase = "Running" /\ ~x.b.waiting /\ x.b.last = "unset"
    /\ x.i.st = "Working" /\ x.i.of = Step(x.b) /\ ~x.i.seen
    /\ ~x.i.zip /\ ~x.i.reboot

\* One entry of the history is written.
Becomes(ended, end, of, word) ==
    /\ DOMAIN end = DOMAIN ended
    /\ of \in DOMAIN ended => end[of] = word
    /\ \A n \in DOMAIN ended : n # of => end[n] = ended[n]

LEMMA AckFacts ==
  ASSUME NEW u, Shape(u)
  PROVE  /\ Beside(u, Ack(u)) /\ Ack(u).b = u.b /\ Ack(u).e = u.e /\ Ack(u).t = u.t
         /\ Ack(u).reboot = u.reboot
         /\ Ack(u).i = u.i \/ (Ack(u).i = NoJob /\ u.i.st \in Terminal /\ ~u.i.zip)
         /\ u.i.st \in Terminal /\ ~u.i.zip => Ack(u).i = NoJob
  BY DEF Ack, Beside, Shape, Fields, NoJob

\* The restart a plugin needs, as the history tells it.
SameDebt(t, s) == s.owed = t.owed /\ s.dropped = t.dropped

LEMMA StartsFacts ==
  ASSUME NEW u, Shape(u), NEW kind, NEW of
  PROVE  LET x == Starts(u, kind, of)
         IN /\ Beside(u, x) /\ x.b = u.b /\ x.e = u.e /\ x.reboot = u.reboot
            /\ x.t.mixed = u.t.mixed /\ SameDebt(u.t, x.t)
            /\ x.t.app = u.t.app /\ x.t.kinds = u.t.kinds /\ x.t.receipt = u.t.receipt
            /\ of # 0 => Becomes(u.t.ended, x.t.ended, of, "started")
            /\ of = 0 => x.t = u.t
            /\ x.i.st = "Working" /\ x.i.kind = kind /\ x.i.of = of
            /\ ~x.i.zip /\ ~x.i.seen /\ ~x.i.reboot
  <1> DEFINE i == [NoJob EXCEPT !.st = "Working", !.kind = kind, !.of = of]
             v == [u EXCEPT !.i = i]
             end == [u.t.ended EXCEPT ![of] = "started"]
             x == Starts(u, kind, of)
  <1>1. of = 0 => x = v
    BY DEF Starts, Noted
  <1>2. of # 0 => x = [v EXCEPT !.t.ended = end]
    <2>1. v.t = u.t
      BY DEF Shape, Fields
    <2> QED
      BY <2>1 DEF Starts, Noted
  <1>3. Becomes(u.t.ended, end, of, "started")
    BY DEF Becomes
  <1>4. /\ DOMAIN i = DOMAIN NoJob /\ i.st = "Working" /\ i.kind = kind /\ i.of = of
        /\ ~i.zip /\ ~i.seen /\ ~i.reboot
    BY DEF NoJob
  <1> HIDE DEF i, end, x
  <1>5. /\ Beside(u, v) /\ v.b = u.b /\ v.e = u.e /\ v.reboot = u.reboot /\ v.t = u.t /\ v.i = i
    BY <1>4 DEF Beside, Shape, Fields
  <1> HIDE DEF v
  <1>6. CASE of = 0
    BY <1>1, <1>4, <1>5, <1>6 DEF x, SameDebt
  <1>7. CASE of # 0
    <2>1. /\ Beside(v, x) /\ x.b = v.b /\ x.e = v.e /\ x.reboot = v.reboot /\ x.i = v.i
          /\ x.t.mixed = v.t.mixed
          /\ SameDebt(v.t, x.t) /\ x.t.app = v.t.app /\ x.t.kinds = v.t.kinds
          /\ x.t.receipt = v.t.receipt /\ x.t.ended = end
      BY <1>2, <1>5, <1>7 DEF Beside, Shape, Fields, NoTruth, SameDebt
    <2> QED
      BY <1>3, <1>4, <1>5, <1>7, <2>1 DEF x, Beside
  <1> QED
    BY <1>6, <1>7

LEMMA FinishFacts ==
  ASSUME NEW u, Shape(u), NEW aborted
  PROVE  LET x == FinishReport(u, aborted)
         IN /\ Beside(u, x) /\ x.b.phase = "Summary" /\ x.e = u.e /\ x.reboot = u.reboot
            /\ x.b.plugin = u.b.plugin
            /\ x.t.mixed = u.t.mixed /\ SameDebt(u.t, x.t)
            /\ x.i = Ack(u).i
            /\ x.t.app = u.t.app /\ x.t.kinds = u.t.kinds /\ x.t.ended = u.t.ended
            /\ x.t.receipt <=> ~aborted /\ u.b.hasFiles /\ u.b.filesOk
            /\ DOMAIN x.b.results = DOMAIN u.b.results
            /\ \A n \in DOMAIN u.b.results :
                  x.b.results[n] = IF aborted /\ u.b.results[n] = "Pending" THEN "NotAttempted"
                                   ELSE u.b.results[n]
  <1> DEFINE r == ~aborted /\ u.b.hasFiles /\ u.b.filesOk
             q == [n \in DOMAIN u.b.results |->
                     IF aborted /\ u.b.results[n] = "Pending" THEN "NotAttempted"
                     ELSE u.b.results[n]]
             end == [NoBatch EXCEPT !.phase = "Summary", !.plugin = u.b.plugin, !.results = q]
  <1>1. FinishReport(u, aborted) = [Ack(u) EXCEPT !.t.receipt = r, !.b = end]
    BY DEF FinishReport
  <1>2. /\ end.phase = "Summary" /\ end.plugin = u.b.plugin /\ end.results = q
        /\ DOMAIN end = DOMAIN NoBatch
    <2> HIDE DEF q
    <2> QED
      BY DEF NoBatch
  <1>q. /\ DOMAIN q = DOMAIN u.b.results
        /\ \A n \in DOMAIN u.b.results :
              q[n] = IF aborted /\ u.b.results[n] = "Pending" THEN "NotAttempted"
                     ELSE u.b.results[n]
    OBVIOUS
  <1>r. r <=> ~aborted /\ u.b.hasFiles /\ u.b.filesOk
    OBVIOUS
  <1> HIDE DEF r, end, q
  <1>3. Shape(Ack(u)) /\ Beside(u, Ack(u)) /\ Ack(u).e = u.e /\ Ack(u).t = u.t
        /\ Ack(u).reboot = u.reboot
    BY AckFacts DEF Beside
  <1> QED
    BY <1>1, <1>2, <1>3, <1>q, <1>r DEF Beside, Shape, Fields, NoTruth, SameDebt

LEMMA RefusedFacts ==
  ASSUME NEW u, Shape(u), NEW n
  PROVE  LET x == AfterRefusals(u, n)
         IN /\ Beside(u, x) /\ x.e = u.e /\ x.reboot = u.reboot /\ x.t = u.t
            /\ x.b.phase = u.b.phase /\ x.b.waiting = u.b.waiting
            /\ x.b.last = "unset" /\ x.b.at = n /\ x.b.skipped = u.b.skipped
            /\ x.b.plugin = u.b.plugin
            /\ x.i = u.i \/ x.i = Ack(u).i
            /\ x.b.queue = u.b.queue /\ x.b.hasFiles = u.b.hasFiles
            /\ x.b.filesOk <=> u.b.filesOk /\ \A g \in u.b.at .. n - 1 : ~Spoils(u.b, g)
            /\ DOMAIN x.b.results = DOMAIN u.b.results
            /\ \A r \in DOMAIN u.b.results :
                  x.b.results[r] = IF r - u.b.skipped \in u.b.at .. n - 1 THEN "Failed"
                                   ELSE u.b.results[r]
  <1> DEFINE b == u.b
             gone == b.at .. n - 1
             i == IF gone = {} THEN u.i ELSE Ack(u).i
             f == IF Takes(u) THEN u.faults + (n - b.at) ELSE u.faults
             ok == b.filesOk /\ \A g \in gone : ~Spoils(b, g)
             results == [r \in DOMAIN b.results |->
                            IF r - b.skipped \in gone THEN "Failed" ELSE b.results[r]]
  <1>1. AfterRefusals(u, n) = [u EXCEPT !.i = i, !.faults = f, !.b.at = n, !.b.last = "unset",
                                        !.b.filesOk = ok, !.b.results = results]
    BY DEF AfterRefusals
  <1>2. i = u.i \/ i = Ack(u).i
    OBVIOUS
  <1>3. ok <=> u.b.filesOk /\ \A g \in u.b.at .. n - 1 : ~Spoils(u.b, g)
    OBVIOUS
  <1>4. /\ DOMAIN results = DOMAIN u.b.results
        /\ \A r \in DOMAIN u.b.results :
              results[r] = IF r - u.b.skipped \in u.b.at .. n - 1 THEN "Failed"
                           ELSE u.b.results[r]
    OBVIOUS
  <1> DEFINE x == AfterRefusals(u, n)
  <1> HIDE DEF i, f, ok, results
  <1>5. DOMAIN i = DOMAIN NoJob
    BY <1>2, AckFacts DEF Beside, Shape
  <1>6. x = [u EXCEPT !.i = i, !.faults = f, !.b.at = n, !.b.last = "unset",
                      !.b.filesOk = ok, !.b.results = results]
    BY <1>1
  <1> HIDE DEF x
  <1>7. /\ Beside(u, x) /\ x.e = u.e /\ x.reboot = u.reboot /\ x.t = u.t
        /\ x.b.phase = u.b.phase /\ x.b.waiting = u.b.waiting
        /\ x.b.last = "unset" /\ x.b.at = n /\ x.b.skipped = u.b.skipped
        /\ x.b.plugin = u.b.plugin /\ x.i = i
        /\ x.b.queue = u.b.queue /\ x.b.hasFiles = u.b.hasFiles
        /\ x.b.filesOk = ok /\ x.b.results = results
    BY <1>5, <1>6 DEF Beside, Shape, Fields, NoBatch
  <1> HIDE DEF b, gone
  <1>8. /\ x.i = u.i \/ x.i = Ack(u).i
        /\ x.b.filesOk <=> u.b.filesOk /\ \A g \in u.b.at .. n - 1 : ~Spoils(u.b, g)
        /\ DOMAIN x.b.results = DOMAIN u.b.results
        /\ \A r \in DOMAIN u.b.results :
              x.b.results[r] = IF r - u.b.skipped \in u.b.at .. n - 1 THEN "Failed"
                               ELSE u.b.results[r]
    BY <1>2, <1>3, <1>4, <1>7
  <1> QED
    BY <1>7, <1>8 DEF x


LEMMA NextStepFacts ==
  ASSUME NEW u, Shape(u), Running(u), ~u.b.waiting, NEW x \in StartNextStep(u)
  PROVE  /\ Beside(u, x) /\ x.e = u.e /\ x.reboot = u.reboot /\ x.t.mixed = u.t.mixed
         /\ SameDebt(u.t, x.t)
         /\ x.b.plugin = u.b.plugin
         /\ \/ x.b.phase = "Summary" /\ Released(u, x)
            \/ AtWork(x) /\ Takes(u)
  <1> DEFINE end == Len(u.b.queue) + 1
             from(n) == AfterRefusals(u, n)
  <1>1. PICK n : /\ n = end => x = FinishReport(from(n), FALSE)
                 /\ n # end => /\ x = Starts(from(n), u.b.queue[n], u.b.skipped + n)
                               /\ Takes(u)
    BY DEF StartNextStep
  <1>2. /\ Beside(u, from(n)) /\ from(n).e = u.e /\ from(n).reboot = u.reboot /\ from(n).t = u.t
        /\ from(n).b.phase = u.b.phase /\ from(n).b.waiting = u.b.waiting
        /\ from(n).b.last = "unset" /\ from(n).b.at = n /\ from(n).b.skipped = u.b.skipped
        /\ from(n).b.plugin = u.b.plugin
        /\ Released(u, from(n))
    BY RefusedFacts, AckFacts DEF Released
  <1>3. Released(from(n), Ack(from(n)))
    BY <1>2, AckFacts DEF Beside, Released
  <1> HIDE DEF from, end
  <1>4. CASE n = end
    <2>1. x = FinishReport(from(n), FALSE)
      BY <1>1, <1>4
    <2>2. /\ Beside(from(n), x) /\ x.b.phase = "Summary" /\ x.e = from(n).e
          /\ x.reboot = from(n).reboot /\ x.b.plugin = from(n).b.plugin
          /\ x.t.mixed = from(n).t.mixed /\ SameDebt(from(n).t, x.t) /\ x.i = Ack(from(n)).i
      <3> DEFINE v == from(n)
                 aborted == FALSE
      <3>1. Shape(v) /\ x = FinishReport(v, aborted)
        BY <1>2, <2>1 DEF Beside
      <3> HIDE DEF v, aborted
      <3>2. /\ Beside(v, x) /\ x.b.phase = "Summary" /\ x.e = v.e
            /\ x.reboot = v.reboot /\ x.b.plugin = v.b.plugin
            /\ x.t.mixed = v.t.mixed /\ SameDebt(v.t, x.t) /\ x.i = Ack(v).i
        BY <3>1, FinishFacts
      <3> QED
        BY <3>2 DEF v
    <2> QED
      BY <1>2, <1>3, <2>2 DEF Beside, Released
  <1>5. CASE n # end
    <2>1. x = Starts(from(n), u.b.queue[n], u.b.skipped + n) /\ Takes(u)
      BY <1>1, <1>5
    <2>2. /\ Beside(from(n), x) /\ x.b = from(n).b /\ x.e = from(n).e
          /\ x.reboot = from(n).reboot /\ x.t.mixed = from(n).t.mixed
          /\ SameDebt(from(n).t, x.t)
          /\ x.i.st = "Working" /\ x.i.of = u.b.skipped + n /\ ~x.i.seen
          /\ ~x.i.zip /\ ~x.i.reboot
      <3>1. Shape(from(n))
        BY <1>2 DEF Beside
      <3> DEFINE v == from(n)
                 kind == u.b.queue[n]
                 of == u.b.skipped + n
      <3>2. Shape(v) /\ x = Starts(v, kind, of)
        BY <3>1, <2>1
      <3> HIDE DEF v, kind, of
      <3>3. /\ Beside(v, x) /\ x.b = v.b /\ x.e = v.e
            /\ x.reboot = v.reboot /\ x.t.mixed = v.t.mixed /\ SameDebt(v.t, x.t)
            /\ x.i.st = "Working" /\ x.i.of = of /\ ~x.i.seen
            /\ ~x.i.zip /\ ~x.i.reboot
        BY <3>2, StartsFacts
      <3> QED
        BY <3>3 DEF v, of
    <2>3. AtWork(x)
      BY <1>2, <2>2 DEF AtWork, Step, Running
    <2> QED
      BY <1>2, <2>1, <2>2, <2>3 DEF Beside
  <1> QED
    BY <1>4, <1>5

LEMMA GoesFacts ==
  ASSUME NEW u, Shape(u), Running(u), ~u.b.waiting, NEW x \in Goes(u)
  PROVE  /\ Beside(u, x) /\ x.e = u.e /\ x.reboot = u.reboot /\ x.t.mixed = u.t.mixed
         /\ SameDebt(u.t, x.t)
         /\ x.b.plugin = u.b.plugin
         /\ \/ x.b.phase = "Summary" /\ Released(u, x)
            \/ AtWork(x) /\ Takes(u)
  <1> DEFINE v == [u EXCEPT !.b.at = @ + 1]
  <1>1. /\ Shape(v) /\ Beside(u, v) /\ v.e = u.e /\ v.reboot = u.reboot /\ v.t = u.t
        /\ v.b.plugin = u.b.plugin /\ Running(v) /\ ~v.b.waiting /\ v.i = u.i
    BY DEF Shape, Beside, Fields, NoBatch, Running
  <1>2. x \in StartNextStep(v)
    BY DEF Goes
  <1> HIDE DEF v
  <1>3. /\ Beside(v, x) /\ x.e = v.e /\ x.reboot = v.reboot /\ x.t.mixed = v.t.mixed
        /\ SameDebt(v.t, x.t)
        /\ x.b.plugin = v.b.plugin
        /\ \/ x.b.phase = "Summary" /\ Released(v, x)
           \/ AtWork(x) /\ Takes(v)
    BY <1>1, <1>2, NextStepFacts
  <1> QED
    BY <1>1, <1>3 DEF Beside, Takes, Released

\* What a queue is told of its job.
Outcomes == {"none", "ok", "failed", "cancelled"}

\* The queue hears for the first time that its plugin was copied and needs a restart.
Copied(u, outcome, needs) ==
    /\ outcome = "ok" /\ needs /\ Running(u) /\ ~u.b.waiting /\ outcome # u.b.last
    /\ More(u.b) /\ u.b.queue[u.b.at] = "plugin"

\* The queue is told how its job stands: it is left alone, or it goes on to a job of its
\* own, or to its report, or waits for an archive to be decided about.
LEMMA TryAdvanceFacts ==
  ASSUME NEW u, Shape(u), NEW outcome \in Outcomes, NEW needs,
         NEW x \in TryAdvance(u, outcome, needs)
  PROVE  /\ Beside(u, x) /\ x.e = u.e /\ x.reboot = u.reboot /\ x.t.mixed = u.t.mixed
         /\ SameDebt(u.t, x.t)
         /\ u.b.plugin => x.b.plugin
         /\ Copied(u, outcome, needs) => x.b.plugin
         /\ \/ x = u /\ (Running(u) /\ ~u.b.waiting => outcome \in {"none", u.b.last})
            \/ /\ Running(u)
               /\ u.b.waiting => u.b.resolved /\ ~u.s.active /\ outcome = "none"
               /\ ~u.b.waiting => outcome \notin {"none", u.b.last}
               /\ \/ x.b.phase = "Summary" /\ Released(u, x)
                  \/ AtWork(x) /\ ~(outcome = "failed" /\ u.s.zip)
            \/ /\ Running(u) /\ ~u.b.waiting /\ outcome = "failed" /\ u.s.zip
               /\ Running(x) /\ x.b.waiting /\ ~x.b.resolved
               /\ Step(x.b) = Step(u.b) /\ x.i = u.i
  <1> DEFINE ok == u.b.filesOk /\ (outcome = "ok" \/ ~Spoils(u.b, u.b.at))
             seen == [u EXCEPT !.b.last = outcome, !.b.filesOk = ok]
  <1>1. /\ Shape(seen) /\ Beside(u, seen) /\ seen.e = u.e /\ seen.reboot = u.reboot
        /\ seen.t = u.t /\ seen.i = u.i
        /\ seen.b.plugin = u.b.plugin /\ seen.b.phase = u.b.phase
        /\ seen.b.waiting = u.b.waiting /\ Step(seen.b) = Step(u.b)
    <2> HIDE DEF ok
    <2> QED
      BY DEF Shape, Beside, Fields, NoBatch, Step
  <1>2. CASE ~Running(u)
    <2>1. x = u
      BY <1>2 DEF TryAdvance
    <2> QED
      BY <1>2, <2>1 DEF Beside, SameDebt, Copied
  <1>3. CASE Running(u) /\ u.b.waiting
    <2> DEFINE v == [u EXCEPT !.b.waiting = FALSE, !.b.resolved = FALSE,
                              !.b.tried = FALSE, !.b.autoFailed = FALSE]
    <2>1. \/ x = u
          \/ x \in Goes(v) /\ u.b.resolved /\ outcome = "none" /\ ~u.s.active
      BY <1>3 DEF TryAdvance
    <2>2. CASE x = u
      BY <1>3, <2>2 DEF Beside, SameDebt, Copied
    <2>3. CASE x \in Goes(v) /\ u.b.resolved /\ outcome = "none" /\ ~u.s.active
      <3>1. /\ Shape(v) /\ Beside(u, v) /\ v.e = u.e /\ v.reboot = u.reboot /\ v.t = u.t
            /\ v.b.plugin = u.b.plugin /\ Running(v) /\ ~v.b.waiting /\ v.i = u.i
        BY <1>3 DEF Shape, Beside, Fields, NoBatch, Running
      <3> HIDE DEF v
      <3>2. /\ Beside(v, x) /\ x.e = v.e /\ x.reboot = v.reboot /\ x.t.mixed = v.t.mixed
            /\ SameDebt(v.t, x.t)
            /\ x.b.plugin = v.b.plugin
            /\ \/ x.b.phase = "Summary" /\ Released(v, x)
               \/ AtWork(x)
        BY <2>3, <3>1, GoesFacts
      <3> QED
        BY <1>3, <2>3, <3>1, <3>2 DEF Beside, Released, Copied
    <2> QED
      BY <2>1, <2>2, <2>3
  <1>4. CASE Running(u) /\ ~u.b.waiting /\ outcome \in {"none", u.b.last}
    <2>1. x = u
      BY <1>4 DEF TryAdvance
    <2> QED
      BY <1>4, <2>1 DEF Beside, SameDebt, Copied
  <1>5. CASE Running(u) /\ ~u.b.waiting /\ outcome \notin {"none", u.b.last} /\ ~More(u.b)
    <2>1. x = FinishReport(u, TRUE)
      BY <1>5 DEF TryAdvance
    <2>2. /\ Beside(u, x) /\ x.b.phase = "Summary" /\ x.e = u.e /\ x.reboot = u.reboot
          /\ x.b.plugin = u.b.plugin /\ x.t.mixed = u.t.mixed
          /\ SameDebt(u.t, x.t) /\ x.i = Ack(u).i
      BY <2>1, FinishFacts
    <2> QED
      BY <1>5, <2>2, AckFacts DEF Released, Copied
  <1>6. CASE Running(u) /\ ~u.b.waiting /\ outcome \notin {"none", u.b.last} /\ More(u.b)
    <2> DEFINE r == Step(u.b)
               results(v) == [seen EXCEPT !.b.results[r] = v]
               plugin == u.b.plugin \/ (u.b.queue[u.b.at] = "plugin" /\ needs)
               done == [seen EXCEPT !.b.results[r] = "Completed", !.b.plugin = plugin]
               waits == [seen EXCEPT !.b.waiting = TRUE, !.b.resolved = FALSE,
                                     !.b.tried = FALSE, !.b.autoFailed = FALSE]
    <2>1. \/ outcome = "ok" /\ x \in Goes(Ack(done))
          \/ outcome = "failed" /\ u.s.zip /\ x = waits
          \/ outcome = "failed" /\ ~u.s.zip /\ x \in Goes(Ack(results("Failed")))
          \/ outcome = "cancelled" /\ x = FinishReport(results("Cancelled"), TRUE)
      <3> HIDE DEF seen, plugin
      <3>1. seen.b.plugin = u.b.plugin
        BY <1>1
      <3> QED
        BY <1>6, <3>1 DEF TryAdvance, Outcomes, plugin, seen
    <2>2. \A v : /\ Shape(results(v)) /\ Beside(u, results(v)) /\ results(v).e = u.e
                 /\ results(v).reboot = u.reboot /\ results(v).t = u.t
                 /\ results(v).i = u.i /\ Running(results(v)) /\ ~results(v).b.waiting
                 /\ results(v).b.plugin = u.b.plugin
      <3> HIDE DEF seen, r
      <3> QED
        BY <1>1, <1>6 DEF Shape, Beside, Fields, NoBatch, Running
    <2>3. /\ Shape(done) /\ Beside(u, done) /\ done.e = u.e
          /\ done.reboot = u.reboot /\ done.t = u.t
          /\ done.i = u.i /\ Running(done) /\ ~done.b.waiting
          /\ u.b.plugin \/ (u.b.queue[u.b.at] = "plugin" /\ needs) => done.b.plugin
      <3> HIDE DEF seen, r, plugin
      <3>1. /\ Shape(done) /\ Beside(u, done) /\ done.e = u.e
            /\ done.reboot = u.reboot /\ done.t = u.t
            /\ done.i = u.i /\ Running(done) /\ ~done.b.waiting
            /\ done.b.plugin = plugin
        BY <1>1, <1>6 DEF Shape, Beside, Fields, NoBatch, Running
      <3>2. u.b.plugin \/ (u.b.queue[u.b.at] = "plugin" /\ needs) => plugin
        BY DEF plugin
      <3> QED
        BY <3>1, <3>2
    <2>4. ASSUME NEW v, Shape(v), Beside(u, v), v.e = u.e, v.reboot = u.reboot, v.t = u.t,
                 v.i = u.i, Running(v), ~v.b.waiting,
                 x \in Goes(Ack(v))
          PROVE  /\ Beside(u, x) /\ x.e = u.e /\ x.reboot = u.reboot
                 /\ x.t.mixed = u.t.mixed /\ SameDebt(u.t, x.t)
                 /\ x.b.plugin = v.b.plugin
                 /\ \/ x.b.phase = "Summary" /\ Released(u, x)
                    \/ AtWork(x)
      <3> DEFINE a == Ack(v)
      <3>1. /\ Shape(a) /\ Beside(v, a) /\ a.b = v.b /\ a.e = v.e /\ a.t = v.t
            /\ a.reboot = v.reboot /\ Released(u, a)
        BY <2>4, AckFacts DEF Beside, Released
      <3>2. Running(a) /\ ~a.b.waiting
        BY <3>1, <2>4 DEF Running
      <3>3. x \in Goes(a)
        BY <2>4
      <3> HIDE DEF a
      <3>4. /\ Beside(a, x) /\ x.e = a.e /\ x.reboot = a.reboot /\ x.t.mixed = a.t.mixed
            /\ SameDebt(a.t, x.t)
            /\ x.b.plugin = a.b.plugin
            /\ \/ x.b.phase = "Summary" /\ Released(a, x)
               \/ AtWork(x)
        BY <3>1, <3>2, <3>3, GoesFacts
      <3> QED
        BY <2>4, <3>1, <3>4 DEF Beside, Released
    <2>5. CASE outcome = "ok" /\ x \in Goes(Ack(done))
      <3> HIDE DEF done
      <3>1. /\ Beside(u, x) /\ x.e = u.e /\ x.reboot = u.reboot
            /\ x.t.mixed = u.t.mixed /\ SameDebt(u.t, x.t)
            /\ x.b.plugin = done.b.plugin
            /\ \/ x.b.phase = "Summary" /\ Released(u, x)
               \/ AtWork(x)
        BY <2>3, <2>4, <2>5
      <3> QED
        BY <1>6, <2>3, <2>5, <3>1 DEF Copied
    <2>6. CASE outcome = "failed" /\ u.s.zip /\ x = waits
      <3>1. /\ Shape(waits) /\ Beside(u, waits) /\ waits.e = u.e
            /\ waits.reboot = u.reboot /\ waits.t = u.t
            /\ waits.i = u.i /\ Running(waits) /\ waits.b.waiting /\ ~waits.b.resolved
            /\ waits.b.plugin = u.b.plugin /\ Step(waits.b) = Step(seen.b)
        <4> HIDE DEF seen
        <4> QED
          BY <1>1, <1>6 DEF Shape, Beside, Fields, NoBatch, Running, Step
      <3> HIDE DEF waits, seen
      <3> QED
        BY <1>1, <1>6, <2>6, <3>1 DEF SameDebt, Copied
    <2>7. CASE outcome = "failed" /\ ~u.s.zip /\ x \in Goes(Ack(results("Failed")))
      <3> DEFINE v == results("Failed")
      <3>1. /\ Shape(v) /\ Beside(u, v) /\ v.e = u.e /\ v.reboot = u.reboot /\ v.t = u.t
            /\ v.i = u.i /\ Running(v) /\ ~v.b.waiting /\ v.b.plugin = u.b.plugin
            /\ x \in Goes(Ack(v))
        BY <2>2, <2>7
      <3> HIDE DEF v
      <3>2. /\ Beside(u, x) /\ x.e = u.e /\ x.reboot = u.reboot
            /\ x.t.mixed = u.t.mixed /\ SameDebt(u.t, x.t)
            /\ u.b.plugin => x.b.plugin
            /\ \/ x.b.phase = "Summary" /\ Released(u, x)
               \/ AtWork(x)
        BY <2>4, <3>1
      <3> QED
        BY <1>6, <2>7, <3>1, <3>2 DEF Copied
    <2>8. CASE outcome = "cancelled" /\ x = FinishReport(results("Cancelled"), TRUE)
      <3> DEFINE v == results("Cancelled")
      <3>1. /\ Shape(v) /\ Beside(u, v) /\ v.e = u.e /\ v.reboot = u.reboot /\ v.t = u.t
            /\ v.i = u.i /\ Running(v) /\ ~v.b.waiting /\ v.b.plugin = u.b.plugin
            /\ x = FinishReport(v, TRUE)
        BY <2>2, <2>8
      <3> HIDE DEF v
      <3>2. /\ Beside(v, x) /\ x.b.phase = "Summary" /\ x.e = v.e /\ x.reboot = v.reboot
            /\ x.b.plugin = v.b.plugin /\ x.t.mixed = v.t.mixed
            /\ SameDebt(v.t, x.t) /\ x.i = Ack(v).i
        BY <3>1, FinishFacts
      <3>3. Released(v, Ack(v))
        BY <3>1, AckFacts DEF Released
      <3> QED
        BY <1>6, <2>8, <3>1, <3>2, <3>3 DEF Beside, Released, Copied
    <2> QED
      BY <2>1, <2>5, <2>6, <2>7, <2>8
  <1> QED
    BY <1>2, <1>3, <1>4, <1>5, <1>6
-----------------------------------------------------------------------------
(* What the report rests on *)

\* What happened, as a report tells it.
SameTale(t, s) ==
    s.app = t.app /\ s.ended = t.ended /\ s.kinds = t.kinds /\ s.receipt = t.receipt

\* A step that leaves the queue alone, and of its job what the report tells.
LEMMA StoryKeeps ==
  ASSUME NEW u, StorySound(u), NEW x, x.b = u.b, u.t.mixed => x.t.mixed,
         x.t.mixed \/ SameTale(u.t, x.t),
         x.t.mixed \/ x.i.of = 0 \/ x.i.of = u.i.of,
         \/ x.t.mixed \/ ~Running(u) \/ u.b.waiting
         \/ x.i.kind = u.i.kind /\ OutcomeOf(x.i) = OutcomeOf(u.i)
  PROVE  StorySound(x)
  BY DEF StorySound, SameTale, Asked, Queued, Past, Future, AtStep, Honest, Running

\* The queue is to go on at n: what came before it is told, the rest is open.
StandsAt(u, n) ==
    ~u.t.mixed =>
      /\ Queued(u.b, u.t) /\ n \in 1 .. Len(u.b.queue) + 1
      /\ Past(u.b, u.t, u.b.skipped + n) /\ Future(u.b, u.t, u.b.skipped + n)
      /\ ~u.t.receipt /\ u.i.of = 0

\* Where a step stands in the queue and in the results.
LEMMA PlaceOf ==
  ASSUME NEW k \in Nat, NEW a \in Nat, a # 0, NEW len \in Nat, NEW n \in a .. len + 1,
         NEW m \in Int, m - k \in a .. n - 1
  PROVE  m \in k + a .. k + len /\ m - k \in 1 .. len
  OBVIOUS

LEMMA Below ==
  ASSUME NEW k \in Nat, NEW of \in 1 .. k
  PROVE  /\ \A n \in 1 .. of - 1 : n \in 1 .. k /\ n # of
         /\ \A n \in of + 1 .. k : n \in of .. k /\ n \in 1 .. k /\ n # of
  OBVIOUS

LEMMA RefusedStory ==
  ASSUME NEW u, Shape(u), StandsAt(u, u.b.at), NEW n \in u.b.at .. Len(u.b.queue) + 1
  PROVE  StandsAt(AfterRefusals(u, n), n)
  <1> DEFINE x == AfterRefusals(u, n)
             gone == u.b.at .. n - 1
  <1>1. /\ x.t = u.t /\ x.b.skipped = u.b.skipped /\ x.b.queue = u.b.queue
        /\ x.b.hasFiles = u.b.hasFiles
        /\ x.b.filesOk <=> u.b.filesOk /\ \A g \in gone : ~Spoils(u.b, g)
        /\ DOMAIN x.b.results = DOMAIN u.b.results
        /\ \A r \in DOMAIN u.b.results :
              x.b.results[r] = IF r - u.b.skipped \in gone THEN "Failed" ELSE u.b.results[r]
        /\ x.i = u.i \/ x.i = Ack(u).i
    BY RefusedFacts
  <1> HIDE DEF x
  <1> SUFFICES ASSUME ~u.t.mixed
               PROVE  StandsAt(x, n)
    BY <1>1 DEF StandsAt, x
  <1>2. /\ Queued(u.b, u.t) /\ u.b.at \in 1 .. Len(u.b.queue) + 1
        /\ Past(u.b, u.t, u.b.skipped + u.b.at) /\ Future(u.b, u.t, u.b.skipped + u.b.at)
        /\ ~u.t.receipt /\ u.i.of = 0
    BY DEF StandsAt
  <1>3. x.i.of = 0
    BY <1>1, <1>2, AckFacts DEF NoJob
  <1>e. x.t = u.t /\ x.b.skipped = u.b.skipped /\ x.b.queue = u.b.queue
    BY <1>1
  <1>4. Queued(x.b, x.t)
    BY <1>1, <1>2 DEF Queued
  <1>5. /\ u.b.skipped \in Nat /\ Len(u.b.queue) \in Nat /\ n \in Nat /\ u.b.at \in Nat
        /\ DOMAIN u.b.results = 1 .. u.b.skipped + Len(u.b.queue)
        /\ DOMAIN u.b.queue = 1 .. Len(u.b.queue)
        /\ n \in u.b.at .. Len(u.b.queue) + 1
    BY <1>2 DEF Queued
  <1>a. u.b.at # 0
    BY <1>2
  <1>6. Past(x.b, x.t, x.b.skipped + n)
    <2> SUFFICES ASSUME NEW m \in 1 .. (x.b.skipped + n) - 1
                 PROVE  /\ Agrees(x.b.results[m], x.t.ended[m])
                        /\ x.b.filesOk /\ x.t.kinds[m] \in FileKinds => x.t.ended[m] = "ok"
      BY DEF Past
    <2>0. m \in 1 .. (u.b.skipped + n) - 1
      BY <1>e
    <2>1. m \in DOMAIN u.b.results
      BY <1>5, <2>0
    <2>2. CASE m - u.b.skipped \in gone
      <3>1. x.b.results[m] = "Failed"
        BY <1>1, <2>1, <2>2
      <3>2. m \in u.b.skipped + u.b.at .. u.b.skipped + Len(u.b.queue)
            /\ m - u.b.skipped \in DOMAIN u.b.queue
        <4>1. m \in Int
          BY <2>0
        <4> QED
          BY <1>a, <1>5, <2>2, <4>1, PlaceOf
      <3>3. u.t.ended[m] = "none"
        BY <1>2, <3>2 DEF Future
      <3>4. u.t.kinds[m] = u.b.queue[m - u.b.skipped]
        <4>1. m = u.b.skipped + (m - u.b.skipped)
          BY <1>5
        <4> QED
          BY <1>2, <3>2, <4>1 DEF Queued
      <3>5. x.b.filesOk => u.t.kinds[m] \notin FileKinds
        BY <1>1, <2>2, <3>4 DEF Spoils
      <3> QED
        BY <1>e, <3>1, <3>3, <3>5 DEF Agrees
    <2>3. CASE m - u.b.skipped \notin gone
      <3>1. m \in 1 .. (u.b.skipped + u.b.at) - 1
        BY <1>5, <2>0, <2>3
      <3>2. x.b.results[m] = u.b.results[m] /\ (x.b.filesOk => u.b.filesOk)
        BY <1>1, <2>1, <2>3
      <3> QED
        BY <1>2, <1>e, <3>1, <3>2 DEF Past
    <2> QED
      BY <2>2, <2>3
  <1>7. Future(x.b, x.t, x.b.skipped + n)
    <2> SUFFICES ASSUME NEW m \in u.b.skipped + n .. u.b.skipped + Len(u.b.queue)
                 PROVE  x.b.results[m] = "Pending" /\ u.t.ended[m] = "none"
      BY <1>1 DEF Future
    <2>1. m \in DOMAIN u.b.results /\ m - u.b.skipped \notin gone
          /\ m \in u.b.skipped + u.b.at .. u.b.skipped + Len(u.b.queue)
      BY <1>a, <1>5, SMTT(30)
    <2> QED
      BY <1>1, <1>2, <2>1 DEF Future
  <1> QED
    BY <1>1, <1>2, <1>3, <1>4, <1>5, <1>6, <1>7 DEF StandsAt

\* A report tells what its queue was told; a step that was not reached is not attempted.
LEMMA FinishStory ==
  ASSUME NEW u, Shape(u), NEW aborted,
         ~u.t.mixed =>
           /\ Queued(u.b, u.t) /\ Ack(u).i.of = 0
           /\ \A n \in DOMAIN u.b.results :
                 \/ Agrees(u.b.results[n], u.t.ended[n])
                 \/ aborted /\ u.b.results[n] = "Pending" /\ u.t.ended[n] = "none"
           /\ ~aborted => Past(u.b, u.t, u.b.skipped + Len(u.b.queue) + 1)
  PROVE  StorySound(FinishReport(u, aborted))
  <1> DEFINE x == FinishReport(u, aborted)
  <1>1. /\ x.b.phase = "Summary" /\ x.t.mixed = u.t.mixed /\ x.i = Ack(u).i
        /\ x.t.app = u.t.app /\ x.t.kinds = u.t.kinds /\ x.t.ended = u.t.ended
        /\ x.t.receipt <=> ~aborted /\ u.b.hasFiles /\ u.b.filesOk
        /\ DOMAIN x.b.results = DOMAIN u.b.results
        /\ \A n \in DOMAIN u.b.results :
              x.b.results[n] = IF aborted /\ u.b.results[n] = "Pending" THEN "NotAttempted"
                               ELSE u.b.results[n]
    BY FinishFacts
  <1> HIDE DEF x
  <1> SUFFICES ASSUME ~u.t.mixed
               PROVE  StorySound(x)
    BY <1>1 DEF StorySound, x
  <1>2. \A n \in DOMAIN x.b.results : Agrees(x.b.results[n], x.t.ended[n])
    BY <1>1 DEF Agrees
  <1>3. ASSUME x.t.receipt, x.t.app # NoApp
        PROVE  Honest(x.t)
    <2>1. /\ Queued(u.b, u.t) /\ Past(u.b, u.t, u.b.skipped + Len(u.b.queue) + 1)
          /\ u.b.filesOk /\ u.b.hasFiles
      BY <1>1, <1>3
    <2>2. /\ u.b.skipped \in Nat /\ Len(u.b.queue) \in Nat
          /\ DOMAIN u.t.ended = 1 .. u.b.skipped + Len(u.b.queue)
          /\ DOMAIN u.b.queue = 1 .. Len(u.b.queue)
      BY <2>1 DEF Queued
    <2>3. 1 .. (u.b.skipped + Len(u.b.queue) + 1) - 1 = DOMAIN u.t.ended
      BY <2>2
    <2>4. \A n \in DOMAIN u.t.ended : u.t.kinds[n] \in FileKinds => u.t.ended[n] = "ok"
      BY <2>1, <2>3 DEF Past
    <2>5. PICK n \in DOMAIN u.b.queue : u.b.queue[n] \in FileKinds
      BY <1>1, <1>3, <2>1 DEF Queued
    <2>6. u.b.skipped + n \in DOMAIN u.t.ended /\ u.t.kinds[u.b.skipped + n] \in FileKinds
      BY <2>1, <2>2, <2>5, SMTT(30) DEF Queued
    <2> QED
      BY <1>1, <2>4, <2>6 DEF Honest
  <1> QED
    BY <1>1, <1>2, <1>3 DEF StorySound, Running, Asking

\* The step the queue stands at is started.
LEMMA StartStory ==
  ASSUME NEW u, Shape(u), StandsAt(u, u.b.at), Running(u), ~u.b.waiting,
         ~u.t.mixed => u.b.at # Len(u.b.queue) + 1
  PROVE  StorySound(Starts(u, u.b.queue[u.b.at], u.b.skipped + u.b.at))
  <1> DEFINE of == u.b.skipped + u.b.at
             kind == u.b.queue[u.b.at]
             x == Starts(u, kind, of)
  <1>0. of = Step(u.b)
    BY DEF Step
  <1>x. x = Starts(u, kind, of)
    OBVIOUS
  <1> HIDE DEF of, kind, x
  <1>1. /\ x.b = u.b /\ x.t.mixed = u.t.mixed
        /\ x.t.app = u.t.app /\ x.t.kinds = u.t.kinds /\ x.t.receipt = u.t.receipt
        /\ of # 0 => Becomes(u.t.ended, x.t.ended, of, "started")
        /\ x.i.st = "Working" /\ x.i.kind = kind /\ x.i.of = of
    BY <1>x, StartsFacts
  <1> SUFFICES ASSUME ~u.t.mixed
               PROVE  StorySound(x)
    BY <1>1 DEF StorySound, x, of, kind
  <1>2. /\ Queued(u.b, u.t) /\ u.b.at \in 1 .. Len(u.b.queue)
        /\ Past(u.b, u.t, of) /\ Future(u.b, u.t, of) /\ ~u.t.receipt
    BY DEF StandsAt, of
  <1>3. u.b.skipped \in Nat /\ Len(u.b.queue) \in Nat /\ of \in Nat /\ of # 0
        /\ of \in 1 .. u.b.skipped + Len(u.b.queue)
        /\ DOMAIN u.t.ended = 1 .. u.b.skipped + Len(u.b.queue)
    BY <1>2, SMTT(30) DEF Queued, of
  <1>4. /\ DOMAIN x.t.ended = DOMAIN u.t.ended /\ x.t.ended[of] = "started"
        /\ \A n \in DOMAIN u.t.ended : n # of => x.t.ended[n] = u.t.ended[n]
    BY <1>1, <1>3 DEF Becomes
  <1>5. Queued(x.b, x.t)
    BY <1>1, <1>2, <1>4 DEF Queued
  <1>e. x.b = u.b /\ x.t.kinds = u.t.kinds
    BY <1>1
  <1>d. /\ u.b.skipped + Len(u.b.queue) \in Nat /\ of \in 1 .. u.b.skipped + Len(u.b.queue)
        /\ DOMAIN u.t.ended = 1 .. u.b.skipped + Len(u.b.queue)
    BY <1>3
  <1>6. Past(x.b, x.t, of)
    <2>1. \A n \in 1 .. of - 1 : x.t.ended[n] = u.t.ended[n]
      BY <1>4, <1>d, Below
    <2> QED
      BY <1>2, <1>e, <2>1, Zenon DEF Past
  <1>7. Future(x.b, x.t, of + 1)
    <2>1. \A n \in of + 1 .. u.b.skipped + Len(u.b.queue) :
             n \in of .. u.b.skipped + Len(u.b.queue) /\ x.t.ended[n] = u.t.ended[n]
      BY <1>4, <1>d, Below
    <2> QED
      BY <1>2, <1>e, <2>1, Zenon DEF Future
  <1>8. AtStep(x)
    <2>1. OutcomeOf(x.i) = "none"
      BY <1>1 DEF OutcomeOf
    <2> QED
      BY <1>0, <1>1, <1>2, <1>4, <2>1 DEF AtStep, kind
  <1> QED
    BY <1>0, <1>1, <1>2, <1>5, <1>6, <1>7, <1>8 DEF StorySound, Running, Asking

LEMMA NextStepStory ==
  ASSUME NEW u, Shape(u), Running(u), ~u.b.waiting, StandsAt(u, u.b.at),
         NEW x \in StartNextStep(u)
  PROVE  StorySound(x)
  <1> DEFINE end == Len(u.b.queue) + 1
             from(n) == AfterRefusals(u, n)
             stops == IF Takes(u) THEN {n \in u.b.at .. end : n - u.b.at <= MaxFaults - u.faults}
                      ELSE {end}
  <1> SUFFICES ASSUME ~u.t.mixed
               PROVE  StorySound(x)
    BY NextStepFacts DEF StorySound
  <1>1. PICK n \in stops : x = IF n = end THEN FinishReport(from(n), FALSE)
                               ELSE Starts(from(n), u.b.queue[n], u.b.skipped + n)
    BY DEF StartNextStep
  <1>2. u.b.at \in 1 .. end /\ Len(u.b.queue) \in Nat
    BY DEF StandsAt, Queued
  <1>3. n \in u.b.at .. end
    BY <1>2
  <1> DEFINE v == from(n)
  <1>4. StandsAt(v, n)
    BY <1>3, RefusedStory
  <1>5. /\ Shape(v) /\ v.t = u.t /\ v.b.at = n /\ v.b.queue = u.b.queue
        /\ v.b.skipped = u.b.skipped /\ Running(v) /\ ~v.b.waiting
    BY RefusedFacts DEF Beside, Running
  <1>6. x = IF n = end THEN FinishReport(v, FALSE)
            ELSE Starts(v, v.b.queue[v.b.at], v.b.skipped + v.b.at)
    BY <1>1, <1>5
  <1> HIDE DEF v, from, stops
  <1>7. CASE n = end
    <2>1. /\ Queued(v.b, v.t) /\ Past(v.b, v.t, v.b.skipped + n) /\ v.i.of = 0
          /\ v.b.skipped \in Nat /\ n = Len(v.b.queue) + 1
          /\ DOMAIN v.b.results = 1 .. v.b.skipped + Len(v.b.queue)
      BY <1>4, <1>5, <1>7 DEF StandsAt, Queued
    <2>2. Ack(v).i.of = 0
      BY <1>5, <2>1, AckFacts DEF NoJob
    <2>3. v.b.skipped + n = v.b.skipped + Len(v.b.queue) + 1
          /\ 1 .. (v.b.skipped + n) - 1 = DOMAIN v.b.results
      BY <1>2, <1>5, <2>1
    <2>4. \A m \in DOMAIN v.b.results : Agrees(v.b.results[m], v.t.ended[m])
      BY <2>1, <2>3 DEF Past
    <2>5. StorySound(FinishReport(v, FALSE))
      BY <1>5, <2>1, <2>2, <2>3, <2>4, FinishStory
    <2> QED
      BY <1>6, <1>7, <2>5
  <1>8. CASE n # end
    BY <1>4, <1>5, <1>6, <1>8, StartStory
  <1> QED
    BY <1>7, <1>8

LEMMA GoesStory ==
  ASSUME NEW u, Shape(u), Running(u), ~u.b.waiting, StandsAt(u, u.b.at + 1), NEW x \in Goes(u)
  PROVE  StorySound(x)
  <1> DEFINE v == [u EXCEPT !.b.at = @ + 1]
  <1>1. /\ Shape(v) /\ Running(v) /\ ~v.b.waiting /\ v.i = u.i /\ v.t = u.t
        /\ v.b.at = u.b.at + 1 /\ v.b.queue = u.b.queue /\ v.b.skipped = u.b.skipped
        /\ v.b.results = u.b.results /\ v.b.hasFiles = u.b.hasFiles /\ v.b.filesOk = u.b.filesOk
    BY DEF Shape, Fields, NoBatch, Running
  <1>2. x \in StartNextStep(v)
    BY DEF Goes
  <1> HIDE DEF v
  <1>3. StandsAt(v, v.b.at)
    BY <1>1 DEF StandsAt, Queued, Past, Future
  <1> QED
    BY <1>1, <1>2, <1>3, NextStepStory

LEMMA StepPlace ==
  ASSUME NEW k \in Nat, NEW len \in Nat, NEW a \in 1 .. len
  PROVE  k + a \in 1 .. k + len /\ k + len \in Nat /\ k + (a + 1) = (k + a) + 1
         /\ a + 1 \in 1 .. len + 1
  OBVIOUS

\* The step the queue is at is told: the queue may go on after it.
LEMMA StepIsOver ==
  ASSUME NEW u, StorySound(u), Running(u), ~u.t.mixed, NEW v, v.t = u.t,
         v.b.queue = u.b.queue, v.b.skipped = u.b.skipped, v.b.at = u.b.at,
         v.b.hasFiles = u.b.hasFiles,
         DOMAIN v.b.results = DOMAIN u.b.results,
         Agrees(v.b.results[Step(u.b)], u.t.ended[Step(u.b)]),
         \A n \in DOMAIN u.b.results : n # Step(u.b) => v.b.results[n] = u.b.results[n],
         v.b.filesOk => /\ u.b.filesOk
                        /\ \/ u.t.ended[Step(u.b)] = "ok"
                           \/ u.b.queue[u.b.at] \notin FileKinds
  PROVE  /\ Queued(v.b, v.t) /\ v.b.at + 1 \in 1 .. Len(v.b.queue) + 1
         /\ Past(v.b, v.t, v.b.skipped + (v.b.at + 1))
         /\ Future(v.b, v.t, v.b.skipped + (v.b.at + 1))
         /\ ~v.t.receipt
         /\ \A n \in DOMAIN v.b.results :
               \/ Agrees(v.b.results[n], v.t.ended[n])
               \/ v.b.results[n] = "Pending" /\ v.t.ended[n] = "none"
  <1> DEFINE r == Step(u.b)
             size == u.b.skipped + Len(u.b.queue)
  <1>1. /\ Queued(u.b, u.t) /\ Past(u.b, u.t, r) /\ Future(u.b, u.t, r + 1) /\ ~u.t.receipt
        /\ u.b.at \in 1 .. Len(u.b.queue)
    BY DEF StorySound, Running, AtStep
  <1>2. /\ u.b.skipped \in Nat /\ Len(u.b.queue) \in Nat /\ DOMAIN u.b.results = 1 .. size
        /\ DOMAIN u.b.queue = 1 .. Len(u.b.queue)
        /\ u.t.kinds[r] = u.b.queue[u.b.at]
    BY <1>1 DEF Queued, Step
  <1>3. /\ r \in 1 .. size /\ size \in Nat /\ u.b.skipped + (u.b.at + 1) = r + 1
        /\ u.b.at + 1 \in 1 .. Len(u.b.queue) + 1
    BY <1>1, <1>2, StepPlace DEF Step
  <1>4. Queued(v.b, v.t)
    BY <1>1 DEF Queued
  <1> HIDE DEF r, size
  <1>5. /\ \A n \in 1 .. (r + 1) - 1 : n \in 1 .. size /\ (n # r => n \in 1 .. r - 1)
        /\ \A n \in r + 1 .. size : n \in 1 .. size /\ n # r
        /\ \A n \in 1 .. size : n \in 1 .. (r + 1) - 1 \/ n \in r + 1 .. size
    BY <1>3
  <1>6. Past(v.b, v.t, r + 1)
    <2> SUFFICES ASSUME NEW n \in 1 .. (r + 1) - 1
                 PROVE  /\ Agrees(v.b.results[n], v.t.ended[n])
                        /\ v.b.filesOk /\ v.t.kinds[n] \in FileKinds => v.t.ended[n] = "ok"
      BY DEF Past
    <2>1. CASE n = r
      BY <1>2, <2>1 DEF r
    <2>2. CASE n # r
      <3>1. n \in 1 .. r - 1 /\ n \in DOMAIN u.b.results
        BY <1>2, <1>5, <2>2
      <3>2. v.b.results[n] = u.b.results[n]
        BY <2>2, <3>1 DEF r
      <3> QED
        BY <1>1, <3>1, <3>2 DEF Past
    <2> QED
      BY <2>1, <2>2
  <1>7. Future(v.b, v.t, r + 1)
    <2> SUFFICES ASSUME NEW n \in r + 1 .. size
                 PROVE  v.b.results[n] = "Pending" /\ v.t.ended[n] = "none"
      BY DEF Future, size
    <2>1. n \in DOMAIN u.b.results /\ n # r
      BY <1>2, <1>5
    <2> QED
      BY <1>1, <2>1 DEF Future, r, size
  <1>8. ASSUME NEW n \in DOMAIN v.b.results
        PROVE  \/ Agrees(v.b.results[n], v.t.ended[n])
               \/ v.b.results[n] = "Pending" /\ v.t.ended[n] = "none"
    <2>1. n \in 1 .. (r + 1) - 1 \/ n \in r + 1 .. size
      BY <1>2, <1>5, <1>8
    <2>2. CASE n \in 1 .. (r + 1) - 1
      BY <1>6, <2>2 DEF Past
    <2>3. CASE n \in r + 1 .. size
      BY <1>7, <2>3 DEF Future, size
    <2> QED
      BY <2>1, <2>2, <2>3
  <1> QED
    BY <1>1, <1>3, <1>4, <1>6, <1>7, <1>8

\* A queue that listens hears of its own job.
Hears(u, outcome, zip) ==
    Running(u) /\ ~u.b.waiting /\ ~u.t.mixed /\ outcome # "none" =>
        outcome = OutcomeOf(u.i) /\ (zip <=> u.i.zip)

LEMMA TryAdvanceStory ==
  ASSUME NEW u, Shape(u), JobSound(u), StorySound(u), NEW outcome \in Outcomes, NEW needs,
         Hears(u, outcome, u.s.zip), NEW x \in TryAdvance(u, outcome, needs)
  PROVE  StorySound(x)
  <1> SUFFICES ASSUME ~u.t.mixed
               PROVE  StorySound(x)
    BY TryAdvanceFacts DEF StorySound
  <1> DEFINE ok == u.b.filesOk /\ (outcome = "ok" \/ ~Spoils(u.b, u.b.at))
             seen == [u EXCEPT !.b.last = outcome, !.b.filesOk = ok]
             r == Step(u.b)
  <1>1. CASE x = u
    BY <1>1
  <1>2. CASE Running(u) /\ u.b.waiting
    <2> DEFINE v == [u EXCEPT !.b.waiting = FALSE, !.b.resolved = FALSE,
                              !.b.tried = FALSE, !.b.autoFailed = FALSE]
    <2>1. x = u \/ (x \in Goes(v) /\ u.b.resolved)
      BY <1>2 DEF TryAdvance
    <2>2. CASE x \in Goes(v) /\ u.b.resolved
      <3>1. /\ Shape(v) /\ v.t = u.t /\ v.i = u.i /\ Running(v) /\ ~v.b.waiting
            /\ v.b.queue = u.b.queue /\ v.b.skipped = u.b.skipped /\ v.b.at = u.b.at
            /\ v.b.hasFiles = u.b.hasFiles /\ v.b.results = u.b.results
            /\ v.b.filesOk = u.b.filesOk
        BY <1>2 DEF Shape, Fields, NoBatch, Running
      <3> HIDE DEF v, seen, ok
      <3>2. /\ u.t.ended[r] = "failed" /\ u.b.results[r] \in {"Kept", "Deleted"}
            /\ u.b.filesOk => u.b.queue[u.b.at] \notin FileKinds
            /\ u.i.of = 0
        BY <1>2, <2>2 DEF StorySound, AtStep
      <3>3. StandsAt(v, v.b.at + 1)
        BY <1>2, <3>1, <3>2, StepIsOver DEF StandsAt, Agrees
      <3> QED
        BY <2>2, <3>1, <3>3, GoesStory
    <2> QED
      BY <1>1, <2>1, <2>2
  <1>3. CASE Running(u) /\ ~u.b.waiting /\ outcome \notin {"none", u.b.last}
    <2>1. More(u.b)
      <3>1. u.b.at \in 1 .. Len(u.b.queue) /\ Len(u.b.queue) \in Nat
        BY <1>3 DEF StorySound, AtStep, Queued
      <3> QED
        BY <3>1 DEF More
    <2>2. outcome = OutcomeOf(u.i) /\ u.t.ended[r] = outcome
      BY <1>3 DEF Hears, StorySound, AtStep
    <2>i. u.s.zip <=> u.i.zip
      BY <1>3 DEF Hears
    <2>t. u.i.st \in Terminal /\ (outcome # "failed" => ~u.i.zip)
      <3>1. /\ outcome = "ok" => u.i.st = "Completed"
            /\ outcome = "failed" => u.i.st = "Failed"
            /\ outcome = "cancelled" => u.i.st = "Cancelled"
        BY <2>2 DEF OutcomeOf
      <3> QED
        BY <1>3, <3>1 DEF Outcomes, JobSound, Terminal
    <2> DEFINE results(text) == [seen EXCEPT !.b.results[r] = text]
               plugin == u.b.plugin \/ (u.b.queue[u.b.at] = "plugin" /\ needs)
               done == [seen EXCEPT !.b.results[r] = "Completed", !.b.plugin = plugin]
               waits == [seen EXCEPT !.b.waiting = TRUE, !.b.resolved = FALSE,
                                     !.b.tried = FALSE, !.b.autoFailed = FALSE]
    <2>3. \/ outcome = "ok" /\ x \in Goes(Ack(done))
          \/ outcome = "failed" /\ u.s.zip /\ x = waits
          \/ outcome = "failed" /\ ~u.s.zip /\ x \in Goes(Ack(results("Failed")))
          \/ outcome = "cancelled" /\ x = FinishReport(results("Cancelled"), TRUE)
      <3>1. seen.b.plugin = u.b.plugin
        BY DEF Shape, Fields, NoBatch
      <3> HIDE DEF seen, plugin
      <3> QED
        BY <1>3, <2>1, <3>1 DEF TryAdvance, Outcomes, plugin, seen
    <2>s. /\ Shape(seen) /\ seen.t = u.t /\ seen.i = u.i /\ Running(seen) /\ ~seen.b.waiting
          /\ seen.b.queue = u.b.queue /\ seen.b.skipped = u.b.skipped /\ seen.b.at = u.b.at
          /\ seen.b.hasFiles = u.b.hasFiles /\ seen.b.results = u.b.results
          /\ seen.b.filesOk = ok /\ seen.b.phase = "Running"
      <3> HIDE DEF ok
      <3> QED
        BY <1>3 DEF Shape, Fields, NoBatch, Running
    <2>o. ok => u.b.filesOk /\ (u.t.ended[r] = "ok" \/ u.b.queue[u.b.at] \notin FileKinds)
      BY <2>2 DEF Spoils
    <2> HIDE DEF ok, seen, r
    <2>r. r \in DOMAIN u.b.results
      <3>1. /\ u.b.at \in 1 .. Len(u.b.queue) /\ Len(u.b.queue) \in Nat /\ u.b.skipped \in Nat
            /\ DOMAIN u.b.results = 1 .. u.b.skipped + Len(u.b.queue)
        BY <1>3 DEF StorySound, AtStep, Queued
      <3> QED
        BY <3>1 DEF r, Step
    \* The result is written.
    <2>w. ASSUME NEW v, NEW word, Agrees(word, outcome),
                 Shape(v), v.t = u.t, v.i = u.i, Running(v), ~v.b.waiting,
                 v.b.queue = u.b.queue, v.b.skipped = u.b.skipped, v.b.at = u.b.at,
                 v.b.hasFiles = u.b.hasFiles, v.b.filesOk = ok,
                 v.b.results = [u.b.results EXCEPT ![r] = word]
          PROVE  /\ Queued(v.b, v.t) /\ v.b.at + 1 \in 1 .. Len(v.b.queue) + 1
                 /\ Past(v.b, v.t, v.b.skipped + (v.b.at + 1))
                 /\ Future(v.b, v.t, v.b.skipped + (v.b.at + 1))
                 /\ ~v.t.receipt
                 /\ \A n \in DOMAIN v.b.results :
                       \/ Agrees(v.b.results[n], v.t.ended[n])
                       \/ v.b.results[n] = "Pending" /\ v.t.ended[n] = "none"
      <3>1. /\ DOMAIN v.b.results = DOMAIN u.b.results /\ v.b.results[r] = word
            /\ \A n \in DOMAIN u.b.results : n # r => v.b.results[n] = u.b.results[n]
        BY <2>w, <2>r
      <3>2. Agrees(v.b.results[r], u.t.ended[r])
        BY <2>2, <2>w, <3>1
      <3>3. v.b.filesOk => /\ u.b.filesOk
                           /\ \/ u.t.ended[r] = "ok"
                              \/ u.b.queue[u.b.at] \notin FileKinds
        BY <2>o, <2>w
      <3>4. r = Step(u.b)
        BY DEF r
      <3>5. /\ Running(u) /\ v.t = u.t /\ v.b.queue = u.b.queue /\ v.b.skipped = u.b.skipped
            /\ v.b.at = u.b.at /\ v.b.hasFiles = u.b.hasFiles
        BY <1>3, <2>w
      <3> QED
        BY <3>1, <3>2, <3>3, <3>4, <3>5, StepIsOver
    \* The result is closed, and the queue goes on.
    <2>g. ASSUME NEW v, NEW word, Agrees(word, outcome),
                 Shape(v), v.t = u.t, v.i = u.i, Running(v), ~v.b.waiting,
                 v.b.queue = u.b.queue, v.b.skipped = u.b.skipped, v.b.at = u.b.at,
                 v.b.hasFiles = u.b.hasFiles, v.b.filesOk = ok,
                 v.b.results = [u.b.results EXCEPT ![r] = word],
                 ~u.i.zip, x \in Goes(Ack(v))
          PROVE  StorySound(x)
      <3> DEFINE a == Ack(v)
      <3>1. Shape(a) /\ a.b = v.b /\ a.t = v.t /\ a.i = NoJob /\ Running(a) /\ ~a.b.waiting
        BY <2>g, <2>t, AckFacts DEF Beside, Running
      <3>2. x \in Goes(a)
        BY <2>g
      <3> HIDE DEF a
      <3>3. StandsAt(a, a.b.at + 1)
        BY <2>w, <2>g, <3>1 DEF StandsAt, NoJob
      <3> QED
        BY <3>1, <3>2, <3>3, GoesStory
    <2>5. CASE outcome = "ok" /\ x \in Goes(Ack(done))
      <3> HIDE DEF plugin
      <3>1. /\ Shape(done) /\ done.t = u.t /\ done.i = u.i /\ Running(done) /\ ~done.b.waiting
            /\ done.b.queue = u.b.queue /\ done.b.skipped = u.b.skipped /\ done.b.at = u.b.at
            /\ done.b.hasFiles = u.b.hasFiles /\ done.b.filesOk = ok
            /\ done.b.results = [u.b.results EXCEPT ![r] = "Completed"]
        BY <2>s DEF Shape, Fields, NoBatch, Running
      <3> HIDE DEF done
      <3>2. Agrees("Completed", outcome) /\ ~u.i.zip
        BY <2>5, <2>t DEF Agrees
      <3> QED
        BY <2>5, <2>g, <3>1, <3>2
    <2>6. CASE outcome = "failed" /\ u.s.zip /\ x = waits
      <3>1. /\ x.t = u.t /\ x.i = u.i /\ Running(x) /\ x.b.waiting /\ ~x.b.resolved
            /\ x.b.queue = u.b.queue /\ x.b.skipped = u.b.skipped /\ x.b.at = u.b.at
            /\ x.b.hasFiles = u.b.hasFiles /\ x.b.filesOk = ok
            /\ x.b.results = u.b.results
        BY <2>s, <2>6 DEF Shape, Fields, NoBatch, Running
      <3>2. /\ Queued(u.b, u.t) /\ Past(u.b, u.t, r) /\ Future(u.b, u.t, r + 1) /\ ~u.t.receipt
            /\ AtStep(u)
        BY <1>3 DEF StorySound, Running, r
      <3>a. u.b.at \in 1 .. Len(u.b.queue)
        BY <3>2 DEF AtStep
      <3>3. Step(x.b) = r
        BY <3>1 DEF Step, r
      <3>4. ok => u.b.filesOk /\ u.b.queue[u.b.at] \notin FileKinds
        BY <2>2, <2>6, <2>o
      <3>5. Queued(x.b, x.t)
        BY <3>1, <3>2 DEF Queued
      <3>6. Past(x.b, x.t, r)
        BY <3>1, <3>2, <3>4, Zenon DEF Past
      <3>7. Future(x.b, x.t, r + 1)
        BY <3>1, <3>2 DEF Future
      <3>8. AtStep(x)
        BY <2>2, <2>6, <3>1, <3>a, <3>3, <3>4 DEF AtStep
      <3> QED
        BY <3>1, <3>2, <3>3, <3>5, <3>6, <3>7, <3>8 DEF StorySound, Running, Asking
    <2>7. CASE outcome = "failed" /\ ~u.s.zip /\ x \in Goes(Ack(results("Failed")))
      <3> DEFINE v == results("Failed")
      <3>1. /\ Shape(v) /\ v.t = u.t /\ v.i = u.i /\ Running(v) /\ ~v.b.waiting
            /\ v.b.queue = u.b.queue /\ v.b.skipped = u.b.skipped /\ v.b.at = u.b.at
            /\ v.b.hasFiles = u.b.hasFiles /\ v.b.filesOk = ok
            /\ v.b.results = [u.b.results EXCEPT ![r] = "Failed"]
        BY <2>s DEF Shape, Fields, NoBatch, Running
      <3>2. x \in Goes(Ack(v))
        BY <2>7
      <3> HIDE DEF v
      <3>3. Agrees("Failed", outcome) /\ ~u.i.zip
        BY <2>7, <2>i DEF Agrees
      <3> QED
        BY <2>g, <3>1, <3>2, <3>3
    <2>8. CASE outcome = "cancelled" /\ x = FinishReport(results("Cancelled"), TRUE)
      <3> DEFINE v == results("Cancelled")
      <3>1. /\ Shape(v) /\ v.t = u.t /\ v.i = u.i /\ Running(v) /\ ~v.b.waiting
            /\ v.b.queue = u.b.queue /\ v.b.skipped = u.b.skipped /\ v.b.at = u.b.at
            /\ v.b.hasFiles = u.b.hasFiles /\ v.b.filesOk = ok
            /\ v.b.results = [u.b.results EXCEPT ![r] = "Cancelled"]
        BY <2>s DEF Shape, Fields, NoBatch, Running
      <3>2. x = FinishReport(v, TRUE)
        BY <2>8
      <3> HIDE DEF v
      <3>3. Agrees("Cancelled", outcome) /\ ~u.i.zip
        BY <2>8, <2>t DEF Agrees
      <3>4. Ack(v).i.of = 0
        BY <2>t, <3>1, <3>3, AckFacts DEF NoJob
      <3>5. /\ Queued(v.b, v.t)
            /\ \A n \in DOMAIN v.b.results :
                  \/ Agrees(v.b.results[n], v.t.ended[n])
                  \/ v.b.results[n] = "Pending" /\ v.t.ended[n] = "none"
        BY <2>w, <3>1, <3>3
      <3> QED
        BY <3>1, <3>2, <3>4, <3>5, FinishStory
    <2> QED
      BY <2>3, <2>5, <2>6, <2>7, <2>8
  <1>4. CASE ~Running(u) \/ (Running(u) /\ ~u.b.waiting /\ outcome \in {"none", u.b.last})
    <2>1. x = u
      BY <1>4 DEF TryAdvance
    <2> QED
      BY <2>1
  <1> QED
    BY <1>2, <1>3, <1>4

LEMMA ResolveStory ==
  ASSUME NEW u, Shape(u), StorySound(u), NEW keep, NEW x \in ResolveRecovery(u, keep)
  PROVE  StorySound(x)
  <1> DEFINE word == IF keep THEN "Kept" ELSE "Deleted"
             r == Step(u.b)
             v == Recovers(u)
             y == [v EXCEPT !.b.results[r] = word, !.b.resolved = TRUE]
             n == IF u.i.zip THEN u.faults + 1 ELSE u.faults
  <1>1. \/ x = u
        \/ x = [u EXCEPT !.faults = n]
        \/ Running(u) /\ u.b.waiting /\ ~u.b.resolved /\ x = y
    BY DEF ResolveRecovery
  <1>2. Shape(v) /\ v.b = u.b /\ v.t = u.t /\ v.i = NoJob
    BY DEF Recovers, Shape, Fields
  <1>w. word \in {"Kept", "Deleted"}
    OBVIOUS
  <1> HIDE DEF v, n, word
  <1>3. CASE x = [u EXCEPT !.faults = n]
    <2>1. x.b = u.b /\ x.t = u.t /\ x.i = u.i
      BY <1>3 DEF Shape, Fields
    <2> QED
      BY <2>1, StoryKeeps DEF SameTale
  <1>4. CASE Running(u) /\ u.b.waiting /\ ~u.b.resolved /\ x = y
    <2> SUFFICES ASSUME ~x.t.mixed
                 PROVE  StorySound(x)
      BY DEF StorySound
    <2> HIDE DEF r
    <2>1. /\ x.t = u.t /\ x.i = NoJob /\ Running(x) /\ x.b.waiting
          /\ x.b.queue = u.b.queue /\ x.b.skipped = u.b.skipped /\ x.b.at = u.b.at
          /\ x.b.hasFiles = u.b.hasFiles /\ x.b.filesOk = u.b.filesOk
          /\ x.b.results = [u.b.results EXCEPT ![r] = word]
      BY <1>2, <1>4 DEF Shape, Fields, NoBatch, Running
    <2>2. /\ Queued(u.b, u.t) /\ Past(u.b, u.t, r) /\ Future(u.b, u.t, r + 1) /\ AtStep(u)
          /\ ~u.t.receipt
      BY <1>4, <2>1 DEF StorySound, Running, r
    <2>3. /\ u.b.at \in 1 .. Len(u.b.queue) /\ Len(u.b.queue) \in Nat /\ u.b.skipped \in Nat
          /\ DOMAIN u.b.results = 1 .. u.b.skipped + Len(u.b.queue)
      BY <2>2 DEF AtStep, Queued
    <2>4. /\ r \in DOMAIN u.b.results /\ u.b.skipped + Len(u.b.queue) \in Nat
      BY <2>3, StepPlace DEF r, Step
    <2>5. /\ DOMAIN x.b.results = DOMAIN u.b.results /\ x.b.results[r] = word
          /\ \A m \in DOMAIN u.b.results : m # r => x.b.results[m] = u.b.results[m]
      BY <2>1, <2>4
    <2>6. Queued(x.b, x.t)
      BY <2>1, <2>2, <2>5 DEF Queued
    <2>7. Past(x.b, x.t, r)
      <3>1. \A m \in 1 .. r - 1 : x.b.results[m] = u.b.results[m]
        BY <2>3, <2>4, <2>5, Below
      <3> QED
        BY <2>1, <2>2, <3>1, Zenon DEF Past
    <2>8. Future(x.b, x.t, r + 1)
      <3>1. \A m \in r + 1 .. u.b.skipped + Len(u.b.queue) : x.b.results[m] = u.b.results[m]
        BY <2>3, <2>4, <2>5, Below
      <3> QED
        BY <2>1, <2>2, <3>1, Zenon DEF Future
    <2>9. Step(x.b) = r
      BY <2>1 DEF r, Step
    <2>10. AtStep(x)
      <3>1. /\ u.t.ended[r] = "failed"
            /\ u.b.filesOk => u.b.queue[u.b.at] \notin FileKinds
        BY <1>4, <2>2 DEF AtStep, r
      <3> QED
        BY <1>w, <2>1, <2>3, <2>5, <2>9, <3>1 DEF AtStep
    <2> QED
      BY <2>1, <2>2, <2>6, <2>7, <2>8, <2>9, <2>10 DEF StorySound, Running, Asking, NoJob
  <1> QED
    BY <1>1, <1>3, <1>4

-----------------------------------------------------------------------------
(* What the wizard asked for *)

LEMMA CloseStory ==
  ASSUME NEW u, Shape(u), StorySound(u)
  PROVE  StorySound(CloseWizard(u))
  <1>1. CASE Running(u)
    BY <1>1 DEF CloseWizard
  <1>2. CASE ~Running(u)
    <2> DEFINE x == CloseWizard(u)
    <2>1. x.b = NoBatch /\ x.t = u.t /\ x.i = u.i
      BY <1>2 DEF CloseWizard, Shape, Fields
    <2>2. NoBatch.phase = "Hidden"
      BY DEF NoBatch
    <2> HIDE DEF x
    <2>3. StorySound(x)
      BY <1>2, <2>1, <2>2 DEF StorySound, Running, Asking
    <2> QED
      BY <2>3 DEF x
  <1> QED
    BY <1>1, <1>2

\* A pack of files is in a queue.
HasFiles(s) == \E n \in 1 .. Len(s) : s[n] \in FileKinds

LEMMA ConcatSteps ==
  ASSUME NEW s \in Seq(Steps), NEW t \in Seq(Steps)
  PROVE  /\ s \o t \in Seq(Steps) /\ (HasFiles(s) \/ HasFiles(t) => HasFiles(s \o t))
  <1>1. s \o t \in Seq(Steps)
    BY ConcatProperties
  <1>2. ASSUME NEW n \in 1 .. Len(s), s[n] \in FileKinds
        PROVE  HasFiles(s \o t)
    <2>1. Len(s) \in Nat /\ Len(t) \in Nat /\ Len(s \o t) = Len(s) + Len(t) /\ (s \o t)[n] = s[n]
      BY <1>2, ConcatProperties
    <2>2. n \in 1 .. Len(s \o t)
      BY <2>1
    <2> QED
      BY <1>2, <2>1, <2>2 DEF HasFiles
  <1>3. ASSUME NEW n \in 1 .. Len(t), t[n] \in FileKinds
        PROVE  HasFiles(s \o t)
    <2>1. Len(s) \in Nat /\ Len(t) \in Nat /\ Len(s \o t) = Len(s) + Len(t)
      BY ConcatProperties
    <2>2. Len(s) + n \in 1 .. Len(s \o t)
      BY <2>1
    <2>3. (s \o t)[Len(s) + n] = t[n]
      BY <2>1, <2>2
    <2> QED
      BY <1>3, <2>2, <2>3 DEF HasFiles
  <1> QED
    BY <1>1, <1>2, <1>3 DEF HasFiles

LEMMA StartQueueStory ==
  ASSUME NEW u, Shape(u), StorySound(u), u.b.phase \in Asking, NEW x \in StartQueue(u)
  PROVE  StorySound(x)
  <1> DEFINE b == u.b
             a == App(u)
             file(k) == IF b.chosen[k] = "one" /\ Options[a][Kinds[k]] > 0 THEN <<Kinds[k]>> ELSE <<>>
             len == IF b.approved < Plugins[a] THEN b.approved ELSE Plugins[a]
             plugins == [n \in 1 .. len |-> "plugin"]
             queue == file(1) \o file(2) \o file(3) \o plugins
             open_ == [n \in 1 .. Len(queue) |-> "Pending"]
             results == b.results \o open_
             has == \E k \in {2, 3} : b.chosen[k] = "one"
             skipped == Len(b.results)
             c == [b EXCEPT
                   !.app = a, !.queue = queue, !.at = 1, !.results = results,
                   !.skipped = skipped, !.last = "unset", !.plugin = FALSE,
                   !.hasFiles = has, !.filesOk = has, !.offers = 0, !.asked = 0, !.approved = 0,
                   !.waiting = FALSE, !.resolved = FALSE, !.tried = FALSE, !.autoFailed = FALSE]
             mixed == u.t.mixed \/ u.i.st # "Idle"
             app == IF u.t.app = a THEN a ELSE NoApp
             ended == [r \in DOMAIN results |-> "none"]
             left == [r \in 1 .. Len(b.results) |-> "plugin"]
             kinds == left \o queue
             made == [u EXCEPT !.b = c, !.t.mixed = mixed, !.t.app = app, !.t.ended = ended,
                               !.t.kinds = kinds]
  <1>1. \/ x = CloseWizard(u)
        \/ InView(u) /\ x = [made EXCEPT !.b.phase = "SpaceWarning"]
        \/ InView(u) /\ x \in StartNextStep([made EXCEPT !.b.phase = "Running"])
    BY DEF StartQueue
  <1>2. /\ DOMAIN c = DOMAIN NoBatch /\ c.phase = b.phase
        /\ ~c.waiting /\ c.queue = queue /\ c.at = 1
        /\ c.results = results /\ c.skipped = skipped /\ c.hasFiles = has /\ c.filesOk = has
    <2> HIDE DEF a, queue, results, has, skipped
    <2> QED
      BY DEF Shape, NoBatch
  <1>3. ~mixed => ~u.t.mixed
    OBVIOUS
  <1> HIDE DEF c, mixed, app, ended, kinds
  <1>4. /\ Shape(made) /\ made.b = c /\ made.i = u.i /\ made.t.mixed = mixed /\ made.t.app = app
        /\ made.t.ended = ended /\ made.t.kinds = kinds /\ made.t.receipt = u.t.receipt
    <2> DEFINE v == [u EXCEPT !.b = c]
               t == [u.t EXCEPT !.mixed = mixed, !.app = app, !.ended = ended, !.kinds = kinds]
    <2>1. /\ DOMAIN t = DOMAIN NoTruth /\ t.mixed = mixed /\ t.app = app
          /\ t.ended = ended /\ t.kinds = kinds /\ t.receipt = u.t.receipt
      BY DEF Shape, NoTruth
    <2>2. Shape(v) /\ v.b = c /\ v.t = u.t /\ v.i = u.i
      BY <1>2 DEF Shape, Fields
    <2>3. made = [v EXCEPT !.t = t]
      BY DEF Shape, Fields
    <2> HIDE DEF v, t, made
    <2> QED
      BY <2>1, <2>2, <2>3 DEF Shape, Fields
  <1> HIDE DEF made
  <1>5. ~mixed => ~u.t.receipt /\ u.i.of = 0 /\ Asked(u)
    BY <1>3 DEF StorySound, Running, Asking
  <1>6. CASE x = [made EXCEPT !.b.phase = "SpaceWarning"]
    <2>1. /\ x.t = made.t /\ x.i = made.i /\ x.b.phase = "SpaceWarning"
      BY <1>4, <1>6 DEF Shape, Fields, NoBatch
    <2> QED
      BY <1>4, <1>5, <2>1 DEF StorySound, Running, Asking
  <1>7. CASE InView(u) /\ x \in StartNextStep([made EXCEPT !.b.phase = "Running"])
    <2> DEFINE v == [made EXCEPT !.b.phase = "Running"]
    <2>1. /\ Shape(v) /\ v.i = made.i /\ v.t = made.t /\ Running(v) /\ ~v.b.waiting
          /\ v.b.queue = queue /\ v.b.at = 1 /\ v.b.results = results /\ v.b.skipped = skipped
          /\ v.b.hasFiles = has /\ v.b.filesOk = has
      <3> HIDE DEF queue, results, has, skipped
      <3> QED
        BY <1>2, <1>4 DEF Shape, Fields, NoBatch, Running
    <2>2. x \in StartNextStep(v)
      BY <1>7
    <2> HIDE DEF v
    <2>3. StandsAt(v, v.b.at)
      <3> SUFFICES ASSUME ~mixed
                   PROVE  StandsAt(v, 1)
        BY <1>4, <2>1 DEF StandsAt
      <3>1. a \in Apps /\ Plugins[a] \in Nat
        BY <1>7, InstallAllAssumption DEF InView, App, Shape
      <3>2. /\ b.results \in Seq({"Skipped"}) /\ b.approved \in Nat
            /\ \A k \in 1 .. 3 : u.t.app # NoApp /\ b.chosen[k] = "one"
                                   => Options[u.t.app][Kinds[k]] > 0
        BY <1>5 DEF Asked
      <3>3. /\ skipped \in Nat /\ DOMAIN b.results = 1 .. skipped
            /\ \A n \in 1 .. skipped : b.results[n] = "Skipped"
        BY <3>2
      <3>4. \A k \in 1 .. 3 : file(k) \in Seq(Steps)
        <4>1. \A k \in 1 .. 3 : Kinds[k] \in Steps
          BY DEF Kinds, Steps, ToSet
        <4> QED
          BY <4>1
      <3>5. plugins \in Seq(Steps)
        <4>1. len \in Nat /\ "plugin" \in Steps
          BY <3>1, <3>2 DEF Steps
        <4> HIDE DEF len
        <4> QED
          BY <4>1
      <3> HIDE DEF plugins, a
      <3>f. ASSUME NEW k \in {2, 3}, b.chosen[k] = "one", app # NoApp
            PROVE  HasFiles(file(k))
        <4>1. u.t.app = a /\ u.t.app # NoApp
          BY <3>f DEF app
        <4>2. Options[a][Kinds[k]] > 0
          BY <3>2, <3>f, <4>1
        <4>3. file(k) = <<Kinds[k]>>
          BY <3>f, <4>2
        <4>4. Kinds[k] \in FileKinds
          BY DEF Kinds, FileKinds
        <4>5. <<Kinds[k]>>[1] = Kinds[k] /\ 1 \in 1 .. Len(<<Kinds[k]>>)
          OBVIOUS
        <4> QED
          BY <4>3, <4>4, <4>5 DEF HasFiles
      <3>6. /\ queue \in Seq(Steps)
            /\ HasFiles(file(2)) \/ HasFiles(file(3)) => HasFiles(queue)
        <4> DEFINE one == file(1)
                   two == file(2)
                   three == file(3)
        <4>1. one \in Seq(Steps) /\ two \in Seq(Steps) /\ three \in Seq(Steps)
          BY <3>4
        <4> HIDE DEF one, two, three
        <4>2. one \o two \in Seq(Steps) /\ (HasFiles(two) => HasFiles(one \o two))
          BY <4>1, ConcatSteps
        <4>3. /\ one \o two \o three \in Seq(Steps)
              /\ HasFiles(one \o two) \/ HasFiles(three) => HasFiles(one \o two \o three)
          BY <4>1, <4>2, ConcatSteps
        <4>4. /\ one \o two \o three \o plugins \in Seq(Steps)
              /\ HasFiles(one \o two \o three) => HasFiles(one \o two \o three \o plugins)
          BY <3>5, <4>3, ConcatSteps
        <4> QED
          BY <4>2, <4>3, <4>4 DEF one, two, three
      <3>7. has /\ app # NoApp => HasFiles(queue)
        BY <3>6, <3>f
      <3> HIDE DEF queue, has, file
      <3>8. /\ Len(queue) \in Nat /\ DOMAIN queue = 1 .. Len(queue)
            /\ \A n \in 1 .. Len(queue) : queue[n] \in Steps
        BY <3>6
      <3>9. /\ DOMAIN results = 1 .. skipped + Len(queue)
            /\ \A n \in 1 .. skipped : results[n] = "Skipped"
            /\ \A n \in skipped + 1 .. skipped + Len(queue) : results[n] = "Pending"
        <4>1. open_ \in Seq({"Pending"}) /\ Len(open_) = Len(queue)
          BY <3>8
        <4>2. \A n \in 1 .. Len(queue) : open_[n] = "Pending"
          OBVIOUS
        <4> HIDE DEF open_
        <4> QED
          BY <3>2, <3>3, <4>1, <4>2, SMTT(30)
      <3>10. /\ DOMAIN kinds = 1 .. skipped + Len(queue)
             /\ \A n \in 1 .. skipped : kinds[n] = "plugin"
             /\ \A n \in 1 .. Len(queue) : kinds[skipped + n] = queue[n]
        <4>1. left \in Seq({"plugin"}) /\ Len(left) = skipped
          BY <3>3
        <4>2. \A n \in 1 .. skipped : left[n] = "plugin"
          OBVIOUS
        <4> HIDE DEF left, skipped
        <4> QED
          BY <3>3, <3>6, <3>8, <4>1, <4>2 DEF kinds
      <3>11. /\ DOMAIN ended = DOMAIN results /\ \A n \in DOMAIN results : ended[n] = "none"
        BY DEF ended
      <3> HIDE DEF results, skipped
      <3>12. Queued(v.b, v.t)
        <4>1. DOMAIN queue = 1 .. Len(queue) /\ DOMAIN kinds = DOMAIN results
          BY <3>8, <3>9, <3>10
        <4>2. has /\ app # NoApp => \E n \in DOMAIN queue : queue[n] \in FileKinds
          BY <3>7, <3>8 DEF HasFiles
        <4>3. \A n \in DOMAIN queue : kinds[skipped + n] = queue[n]
          BY <3>8, <3>10
        <4> QED
          BY <1>4, <2>1, <3>3, <3>6, <3>9, <3>10, <3>11, <4>1, <4>2, <4>3 DEF Queued
      <3>13. Past(v.b, v.t, v.b.skipped + 1)
        <4> SUFFICES ASSUME NEW n \in 1 .. (skipped + 1) - 1
                     PROVE  Agrees(results[n], ended[n]) /\ kinds[n] \notin FileKinds
          BY <1>4, <2>1 DEF Past
        <4>1. n \in 1 .. skipped /\ n \in DOMAIN results
          BY <3>3, <3>8, <3>9
        <4> QED
          BY <3>9, <3>10, <3>11, <4>1 DEF Agrees, FileKinds
      <3>14. Future(v.b, v.t, v.b.skipped + 1)
        <4> SUFFICES ASSUME NEW n \in skipped + 1 .. skipped + Len(queue)
                     PROVE  results[n] = "Pending" /\ ended[n] = "none"
          BY <1>4, <2>1 DEF Future
        <4>1. n \in DOMAIN results
          BY <3>3, <3>8, <3>9
        <4> QED
          BY <3>9, <3>11, <4>1
      <3> QED
        BY <1>4, <1>5, <2>1, <3>8, <3>12, <3>13, <3>14 DEF StandsAt
    <2> QED
      BY <2>1, <2>2, <2>3, NextStepStory
  <1> QED
    BY <1>1, <1>6, <1>7, CloseStory

\* A link failed at once.
FailedAtOnce(i) ==
    i.st = "Failed" /\ i.kind = "none" /\ i.of = 0 /\ ~i.zip /\ ~i.reboot /\ ~i.seen

\* An essential plugin has just been started.
PluginStarted(i) ==
    i.st = "Working" /\ i.kind = "plugin" /\ i.of = 0 /\ ~i.zip /\ ~i.reboot /\ ~i.seen

LEMMA RefusalsFacts ==
  ASSUME NEW u, Shape(u), NEW x \in Refusals(u)
  PROVE  /\ Beside(u, x) /\ x.b = u.b /\ x.e = u.e /\ x.reboot = u.reboot /\ x.t = u.t
         /\ x.i = u.i \/ (Takes(u) /\ FailedAtOnce(x.i))
  <1> DEFINE failed == [NoJob EXCEPT !.st = "Failed"]
             n == u.faults + 1
  <1>1. DOMAIN failed = DOMAIN NoJob /\ FailedAtOnce(failed)
    BY DEF NoJob, FailedAtOnce
  <1>2. \/ x = u
        \/ x = [u EXCEPT !.faults = n]
        \/ Takes(u) /\ x = [u EXCEPT !.faults = n, !.i = failed]
    BY DEF Refusals
  <1> HIDE DEF failed, n
  <1> QED
    BY <1>1, <1>2 DEF Beside, Shape, Fields

LEMMA StopsFacts ==
  ASSUME NEW u, Shape(u), NEW tell
  PROVE  LET x == Stops(u, tell)
         IN /\ Beside(u, x) /\ x.b = u.b /\ x.i = u.i /\ x.t = u.t
            /\ ~x.e.running /\ x.e.left = 0 /\ (x.reboot <=> u.reboot \/ tell)
  BY DEF Stops, Beside, Shape, Fields, NoQueue

\* The restart that is owed is not forgotten but by an excepted step.
Remembers(u, x) ==
    /\ x.t.owed = u.t.owed /\ (u.t.dropped => x.t.dropped) /\ (u.reboot => x.reboot)

LEMMA KickFacts ==
  ASSUME NEW u, Shape(u), NEW x \in KickEssential(u)
  PROVE  /\ Beside(u, x) /\ x.b = u.b /\ x.t.mixed = u.t.mixed /\ SameTale(u.t, x.t)
         /\ Remembers(u, x)
         /\ \/ /\ ~x.e.running /\ x.e.left = 0 /\ (u.e.begun => x.reboot \/ x.t.dropped)
               /\ x.i = u.i \/ (Takes(u) /\ FailedAtOnce(x.i))
            \/ /\ u.e.left # 0 /\ Takes(u) /\ PluginStarted(x.i)
               /\ x.e.running = u.e.running /\ x.e.left = u.e.left /\ x.e.last = "none"
               /\ x.e.begun = u.e.begun
  <1>1. CASE u.e.left = 0
    <2>1. x = Stops(u, TRUE)
      BY <1>1 DEF KickEssential
    <2> QED
      <3> DEFINE tell == TRUE
      <3>1. x = Stops(u, tell)
        BY <2>1
      <3>2. tell
        OBVIOUS
      <3> HIDE DEF tell
      <3> QED
        BY <3>1, <3>2, StopsFacts DEF SameTale, Remembers
  <1>2. CASE u.e.left # 0 /\ Takes(u) /\ x = [Starts(u, "plugin", 0) EXCEPT !.e.last = "none"]
    <2> DEFINE v == Starts(u, "plugin", 0)
    <2>1. /\ Beside(u, v) /\ v.b = u.b /\ v.e = u.e /\ v.t.mixed = u.t.mixed
          /\ SameTale(u.t, v.t) /\ PluginStarted(v.i) /\ v.t = u.t /\ v.reboot = u.reboot
      BY StartsFacts DEF PluginStarted, SameTale
    <2>2. x = [v EXCEPT !.e.last = "none"]
      BY <1>2
    <2> HIDE DEF v
    <2>3. /\ Beside(v, x) /\ x.b = v.b /\ x.t = v.t /\ x.i = v.i
          /\ x.e.running = v.e.running /\ x.e.left = v.e.left /\ x.e.last = "none"
          /\ x.e.begun = v.e.begun /\ x.reboot = v.reboot
      BY <2>1, <2>2 DEF Beside, Shape, Fields, NoQueue
    <2> QED
      BY <1>2, <2>1, <2>3 DEF Beside, SameTale, Remembers
  <1>3. CASE /\ u.e.left # 0
             /\ \E v \in Refusals(u) : x = [Stops(v, FALSE) EXCEPT !.t.dropped = @ \/ u.e.begun]
    <2>1. PICK v \in Refusals(u) : x = [Stops(v, FALSE) EXCEPT !.t.dropped = @ \/ u.e.begun]
      BY <1>3
    <2>2. /\ Beside(u, v) /\ v.b = u.b /\ v.e = u.e /\ v.reboot = u.reboot /\ v.t = u.t
          /\ v.i = u.i \/ (Takes(u) /\ FailedAtOnce(v.i))
      BY <2>1, RefusalsFacts
    <2> DEFINE y == Stops(v, FALSE)
               dropped == y.t.dropped \/ u.e.begun
    <2>3. /\ Beside(v, y) /\ y.b = v.b /\ y.i = v.i /\ y.t = v.t
          /\ ~y.e.running /\ y.e.left = 0 /\ (v.reboot => y.reboot)
      <3> DEFINE tell == FALSE
      <3>1. y = Stops(v, tell)
        OBVIOUS
      <3> HIDE DEF tell, y
      <3> QED
        BY <2>2, <3>1, StopsFacts DEF Beside
    <2>4. x = [y EXCEPT !.t.dropped = dropped]
      BY <2>1
    <2>6. (u.e.begun => dropped) /\ (y.t.dropped => dropped)
      OBVIOUS
    <2> HIDE DEF y, dropped
    <2>5. Beside(y, x) /\ x.b = y.b /\ x.i = y.i /\ x.e = y.e /\ x.t.mixed = y.t.mixed
          /\ SameTale(y.t, x.t) /\ x.reboot = y.reboot /\ x.t.owed = y.t.owed
          /\ x.t.dropped = dropped
      BY <2>3, <2>4 DEF Beside, Shape, Fields, NoTruth, SameTale
    <2> QED
      BY <2>2, <2>3, <2>5, <2>6 DEF Beside, SameTale, Remembers
  <1> QED
    BY <1>1, <1>2, <1>3 DEF KickEssential

LEMMA EssentialAdvanceFacts ==
  ASSUME NEW u, Shape(u), NEW outcome \in Outcomes, NEW x \in EssentialAdvance(u, outcome),
         u.e.left \in 0 .. 3, u.e.running => u.e.left # 0
  PROVE  /\ Beside(u, x) /\ x.b = u.b /\ x.t.mixed = u.t.mixed /\ SameTale(u.t, x.t)
         /\ Remembers(u, x)
         /\ \/ x = u /\ (u.e.running => outcome = u.e.last)
            \/ /\ u.e.running /\ ~x.e.running /\ x.e.left = 0
               /\ u.e.begun \/ outcome = "ok" => x.reboot \/ x.t.dropped
               /\ \/ x.i = u.i /\ outcome # "none"
                  \/ outcome = "ok" /\ (x.i = NoJob \/ FailedAtOnce(x.i))
            \/ /\ u.e.running /\ outcome = "ok" /\ PluginStarted(x.i)
               /\ x.e.running /\ x.e.left = u.e.left - 1 /\ x.e.left # 0 /\ x.e.last = "none"
               /\ x.e.begun
            \/ /\ u.e.running /\ outcome = "none" /\ u.e.last # "none"
               /\ x.i = u.i /\ x.e.last = "none"
               /\ x.e.running = u.e.running /\ x.e.left = u.e.left
               /\ x.e.begun = u.e.begun
  <1>1. CASE ~u.e.running \/ outcome = u.e.last
    <2>1. x = u
      BY <1>1 DEF EssentialAdvance
    <2> QED
      BY <1>1, <2>1 DEF Beside, SameTale, Remembers
  <1>2. CASE u.e.running /\ outcome # u.e.last /\ outcome \in {"failed", "cancelled"}
    <2>1. x = Stops(u, u.e.begun)
      BY <1>2 DEF EssentialAdvance
    <2> QED
      <3> DEFINE begun == u.e.begun
      <3> HIDE DEF begun
      <3> QED
        BY <1>2, <2>1, StopsFacts DEF SameTale, Remembers
  <1>3. CASE u.e.running /\ outcome # u.e.last /\ outcome = "ok"
    <2> DEFINE v == [u EXCEPT !.e.last = outcome, !.e.left = @ - 1, !.e.begun = TRUE]
               a == Ack(v)
    <2>1. x \in KickEssential(a)
      BY <1>3 DEF EssentialAdvance
    <2>2. /\ Beside(u, v) /\ v.b = u.b /\ v.t = u.t /\ v.i = u.i
          /\ v.e.running = u.e.running /\ v.e.left = u.e.left - 1 /\ v.e.begun
          /\ v.reboot = u.reboot
      BY DEF Beside, Shape, Fields, NoQueue
    <2> HIDE DEF v
    <2>3. /\ Beside(v, a) /\ a.b = v.b /\ a.t = v.t /\ a.e = v.e /\ Released(v, a)
          /\ a.reboot = v.reboot
      BY <2>2, AckFacts DEF Beside, Released
    <2> HIDE DEF a
    <2>4. /\ Beside(a, x) /\ x.b = a.b /\ x.t.mixed = a.t.mixed /\ SameTale(a.t, x.t)
          /\ Remembers(a, x)
          /\ \/ /\ ~x.e.running /\ x.e.left = 0 /\ (a.e.begun => x.reboot \/ x.t.dropped)
                /\ x.i = a.i \/ (Takes(a) /\ FailedAtOnce(x.i))
             \/ /\ a.e.left # 0 /\ Takes(a) /\ PluginStarted(x.i)
                /\ x.e.running = a.e.running /\ x.e.left = a.e.left /\ x.e.last = "none"
                /\ x.e.begun = a.e.begun
      BY <2>1, <2>2, <2>3, KickFacts DEF Beside
    <2> QED
      BY <1>3, <2>2, <2>3, <2>4 DEF Beside, Released, Remembers
  <1>4. CASE u.e.running /\ outcome # u.e.last /\ outcome = "none"
    <2>1. x = [u EXCEPT !.e.last = outcome]
      BY <1>4 DEF EssentialAdvance
    <2> QED
      BY <1>4, <2>1 DEF Beside, Shape, Fields, NoQueue, SameTale, Remembers
  <1> QED
    BY <1>1, <1>2, <1>3, <1>4 DEF Outcomes

LEMMA TryAdvanceSound ==
  ASSUME NEW u, Sound(u), NEW outcome \in Outcomes, NEW needs,
         u.e.running /\ ~u.t.mixed => u.s.active,
         outcome = "failed" /\ u.s.zip => u.i.st = "Failed" /\ u.i.zip,
         Hears(u, outcome, u.s.zip), NEW x \in TryAdvance(u, outcome, needs)
  PROVE  /\ Sound(x)
         /\ AtPoll(u) => AtPoll(x)
         /\ Beside(u, x) /\ x.e = u.e
         /\ Released(u, x) \/ AtWork(x)
         /\ AtStorage(u) => x = u
         /\ BatchUnseen(u) \/ outcome # "none" => BatchUnseen(x)
         /\ u.e.running /\ ~u.t.mixed => x.i = u.i
         /\ x.t.mixed = u.t.mixed /\ (Running(x) => Running(u))
         /\ outcome = "failed" /\ u.s.zip =>
              x.i = u.i /\ (Running(x) /\ ~x.t.mixed => x.b.waiting)
  <1>1. /\ Beside(u, x) /\ x.e = u.e /\ x.t.mixed = u.t.mixed
        /\ \/ x = u /\ (Running(u) /\ ~u.b.waiting => outcome \in {"none", u.b.last})
           \/ /\ Running(u)
              /\ u.b.waiting => u.b.resolved /\ ~u.s.active /\ outcome = "none"
              /\ ~u.b.waiting => outcome \notin {"none", u.b.last}
              /\ \/ x.b.phase = "Summary" /\ Released(u, x)
                 \/ AtWork(x) /\ ~(outcome = "failed" /\ u.s.zip)
           \/ /\ Running(u) /\ ~u.b.waiting /\ outcome = "failed" /\ u.s.zip
              /\ Running(x) /\ x.b.waiting /\ ~x.b.resolved
              /\ Step(x.b) = Step(u.b) /\ x.i = u.i
    BY TryAdvanceFacts DEF Sound
  <1>s. StorySound(x)
    BY TryAdvanceStory DEF Sound
  <1>2. CASE x = u /\ (Running(u) /\ ~u.b.waiting => outcome \in {"none", u.b.last})
    <2>1. outcome = "failed" /\ Running(u) /\ ~u.t.mixed => u.b.waiting
      BY <1>2 DEF Sound, BatchSound
    <2> QED
      <3>1. BatchUnseen(u) \/ outcome # "none" => BatchUnseen(x)
        BY <1>2 DEF Sound, BatchSound, BatchUnseen, Outcomes
      <3> QED
        BY <1>1, <1>2, <2>1, <3>1 DEF Released
  <1>3. CASE /\ Running(u)
             /\ u.b.waiting => u.b.resolved /\ ~u.s.active /\ outcome = "none"
             /\ x.b.phase = "Summary" /\ Released(u, x)
    <2>1. ~u.t.mixed => ~u.e.running
      BY <1>3 DEF Sound, EssentialSound, Running
    <2>2. ~AtStorage(u) /\ "remove" \notin u.work
      BY <1>3 DEF Sound, StorageSound, Running
    <2>3. JobSound(x)
      BY <1>3 DEF Sound, JobSound, Released, NoJob
    <2>4. EssentialSound(x) /\ BatchSound(x) /\ StorageSound(x) /\ AtPoll(x)
      BY <1>1, <1>3, <2>1, <2>2
      DEF Sound, EssentialSound, BatchSound, StorageSound, Running, Beside, AtStorage, AtPoll
    <2>5. outcome = "failed" /\ u.s.zip => x.i = u.i
      BY <1>3 DEF Released
    <2> QED
      BY <1>1, <1>s, <1>3, <2>1, <2>2, <2>3, <2>4, <2>5 DEF Sound, Beside, Running, BatchUnseen
  <1>4. CASE /\ Running(u)
             /\ u.b.waiting => u.b.resolved /\ ~u.s.active /\ outcome = "none"
             /\ AtWork(x) /\ ~(outcome = "failed" /\ u.s.zip)
    <2>1. ~u.t.mixed => ~u.e.running
      BY <1>4 DEF Sound, EssentialSound, Running
    <2>2. ~AtStorage(u) /\ "remove" \notin u.work
      BY <1>4 DEF Sound, StorageSound, Running
    <2>3. JobSound(x)
      BY <1>4 DEF AtWork, JobSound
    <2>4. EssentialSound(x) /\ BatchSound(x) /\ StorageSound(x) /\ AtPoll(x)
      BY <1>1, <1>4, <2>1, <2>2
      DEF Sound, EssentialSound, BatchSound, StorageSound, Running, Beside, AtStorage, AtPoll,
          AtWork
    <2> QED
      <3>1. BatchUnseen(x)
        BY <1>4 DEF BatchUnseen, AtWork
      <3> QED
        BY <1>1, <1>s, <1>4, <2>1, <2>2, <2>3, <2>4, <3>1 DEF Sound, Beside, Running
  <1>5. CASE /\ Running(u) /\ ~u.b.waiting /\ outcome = "failed" /\ u.s.zip
             /\ Running(x) /\ x.b.waiting /\ ~x.b.resolved
             /\ Step(x.b) = Step(u.b) /\ x.i = u.i
    <2>1. ~u.t.mixed => ~u.e.running
      BY <1>5 DEF Sound, EssentialSound, Running
    <2>2. ~AtStorage(u) /\ "remove" \notin u.work
      BY <1>5 DEF Sound, StorageSound, Running
    <2>3. JobSound(x)
      BY <1>5 DEF Sound, JobSound
    <2>4. EssentialSound(x) /\ BatchSound(x) /\ StorageSound(x) /\ AtPoll(x)
      BY <1>1, <1>5, <2>1, <2>2
      DEF Sound, EssentialSound, BatchSound, StorageSound, Beside, AtStorage, AtPoll
    <2> QED
      BY <1>1, <1>s, <1>5, <2>2, <2>3, <2>4 DEF Sound, Beside, Released, BatchUnseen
  <1> QED
    BY <1>1, <1>2, <1>3, <1>4, <1>5

LEMMA EssentialAdvanceSound ==
  ASSUME NEW u, Sound(u), AtPoll(u), NEW outcome \in Outcomes, outcome = "ok" => PluginJob(u),
         NEW x \in EssentialAdvance(u, outcome)
  PROVE  /\ Sound(x) /\ AtPoll(x)
         /\ Beside(u, x) /\ x.b = u.b /\ x.t.mixed = u.t.mixed
         /\ outcome # "ok" => x.i = u.i
         /\ outcome = "ok" /\ x.e.running => x.e.left \in 0 .. 2
         /\ outcome = "ok" /\ x.e.running /\ AtStorage(u) => x.e.left \in 0 .. 1
         /\ BatchUnseen(u) => BatchUnseen(x)
         /\ QueueUnseen(u) \/ outcome # "none" => QueueUnseen(x)
         /\ x.e.running => u.e.running
         /\ outcome # "ok" /\ x.e.running => x.e.left = u.e.left
         /\ x.e.running => outcome \in {"none", "ok"}
         /\ x.i.st = "Completed" => x.i = u.i
  <1>1. u.e.left \in 0 .. 3 /\ (u.e.running => u.e.left # 0 /\ u.e.last = "none") /\ Shape(u)
    BY DEF Sound, EssentialSound
  <1>2. /\ Beside(u, x) /\ x.b = u.b /\ x.t.mixed = u.t.mixed /\ SameTale(u.t, x.t)
        /\ \/ x = u /\ (u.e.running => outcome = u.e.last)
           \/ /\ u.e.running /\ ~x.e.running /\ x.e.left = 0
              /\ \/ x.i = u.i /\ outcome # "none"
                 \/ outcome = "ok" /\ (x.i = NoJob \/ FailedAtOnce(x.i))
           \/ /\ u.e.running /\ outcome = "ok" /\ PluginStarted(x.i)
              /\ x.e.running /\ x.e.left = u.e.left - 1 /\ x.e.left # 0 /\ x.e.last = "none"
           \/ /\ u.e.running /\ outcome = "none" /\ u.e.last # "none"
              /\ x.i = u.i /\ x.e.last = "none"
              /\ x.e.running = u.e.running /\ x.e.left = u.e.left
    BY <1>1, EssentialAdvanceFacts
  <1>s. StorySound(x)
    <2>1. x.i = u.i \/ (x.i.of = 0 /\ u.e.running)
      BY <1>2 DEF FailedAtOnce, PluginStarted, NoJob
    <2>2. x.t.mixed \/ ~Running(u) \/ u.b.waiting \/ x.i = u.i
      BY <1>2, <2>1 DEF Sound, EssentialSound
    <2> QED
      BY <1>2, <2>1, <2>2, StoryKeeps DEF Sound
  <1>3. CASE x = u /\ (u.e.running => outcome = u.e.last)
    <2>1. QueueUnseen(u) \/ outcome # "none" => QueueUnseen(x)
      BY <1>3 DEF Sound, EssentialSound, QueueUnseen
    <2> QED
      BY <1>1, <1>2, <1>3, <2>1
  <1>4. CASE /\ u.e.running /\ ~x.e.running /\ x.e.left = 0
             /\ \/ x.i = u.i /\ outcome # "none"
                \/ outcome = "ok" /\ (x.i = NoJob \/ FailedAtOnce(x.i))
    <2>1. JobSound(x)
      BY <1>4 DEF Sound, JobSound, NoJob, FailedAtOnce
    <2>2. EssentialSound(x)
      BY <1>1, <1>2, <1>4 DEF Sound, EssentialSound, Beside
    <2>3. BatchSound(x)
      BY <1>1, <1>2, <1>4 DEF Sound, EssentialSound, BatchSound, Running
    <2>4. StorageSound(x)
      <3>1. x.i.st \in {"Working", "Paused"} => x.i = u.i
        BY <1>4 DEF NoJob, FailedAtOnce
      <3> QED
        BY <1>2, <3>1 DEF Sound, StorageSound, Beside, AtStorage
    <2>5. AtPoll(x) /\ (x.i.st = "Completed" => x.i = u.i)
      BY <1>4 DEF AtPoll, NoJob, FailedAtOnce
    <2> QED
      <3>1. BatchUnseen(u) => BatchUnseen(x)
        BY <1>1, <1>2, <1>4 DEF Sound, EssentialSound, BatchUnseen, Running
      <3>2. QueueUnseen(u) \/ outcome # "none" => QueueUnseen(x)
        BY <1>2, <1>4 DEF QueueUnseen, PluginStarted
      <3> QED
        BY <1>2, <1>4, <2>1, <2>2, <2>3, <2>4, <2>5, <3>1, <3>2, <1>s DEF Sound, Beside
  <1>5. CASE /\ u.e.running /\ outcome = "ok" /\ PluginStarted(x.i)
             /\ x.e.running /\ x.e.left = u.e.left - 1 /\ x.e.left # 0 /\ x.e.last = "none"
    <2>1. JobSound(x)
      BY <1>5 DEF JobSound, PluginStarted
    <2>2. EssentialSound(x)
      BY <1>1, <1>2, <1>5 DEF Sound, EssentialSound, Beside, PluginStarted, Running
    <2>3. BatchSound(x)
      BY <1>1, <1>2, <1>5 DEF Sound, EssentialSound, BatchSound, Running
    <2>4. AtStorage(u) => u.e.left = 2 /\ "remove" \notin u.work
      BY <1>1, <1>5 DEF AtPoll
    <2>5. StorageSound(x) /\ AtPoll(x)
      BY <1>2, <1>5, <2>4 DEF Sound, StorageSound, Beside, AtStorage, AtPoll
    <2>6. x.e.left \in 0 .. 2 /\ (AtStorage(u) => x.e.left \in 0 .. 1) /\ x.i.st # "Completed"
      BY <1>1, <1>5, <2>4 DEF PluginStarted
    <2> QED
      <3>1. BatchUnseen(u) => BatchUnseen(x)
        BY <1>1, <1>2, <1>5 DEF Sound, EssentialSound, BatchUnseen, Running
      <3>2. QueueUnseen(u) \/ outcome # "none" => QueueUnseen(x)
        BY <1>2, <1>5 DEF QueueUnseen, PluginStarted
      <3> QED
        BY <1>2, <1>5, <2>1, <2>2, <2>3, <2>5, <2>6, <3>1, <3>2, <1>s DEF Sound, Beside
  <1>6. CASE /\ u.e.running /\ outcome = "none" /\ u.e.last # "none"
             /\ x.i = u.i /\ x.e.last = "none"
             /\ x.e.running = u.e.running /\ x.e.left = u.e.left
    <2>1. JobSound(x) /\ EssentialSound(x)
      BY <1>1, <1>2, <1>6 DEF Sound, JobSound, EssentialSound, Beside, Running
    <2>2. BatchSound(x) /\ StorageSound(x) /\ AtPoll(x)
      BY <1>2, <1>6
      DEF Sound, BatchSound, Running, StorageSound, Beside, AtStorage, AtPoll, PluginJob
    <2> QED
      <3>1. BatchUnseen(u) => BatchUnseen(x)
        BY <1>1, <1>2, <1>6 DEF Sound, EssentialSound, BatchUnseen, Running
      <3>2. QueueUnseen(u) \/ outcome # "none" => QueueUnseen(x)
        BY <1>2, <1>6 DEF QueueUnseen, PluginStarted
      <3> QED
        BY <1>2, <1>6, <2>1, <2>2, <3>1, <3>2, <1>s DEF Sound, Beside
  <1> QED
    BY <1>2, <1>3, <1>4, <1>5, <1>6

\* The worlds that differ in nothing the invariant reads but what the screen shows.
LEMMA ShownIsFree ==
  ASSUME NEW u, Sound(u), NEW x, Shape(x), x.b = u.b, x.e = u.e, x.i = u.i,
         x.t.mixed = u.t.mixed, SameTale(u.t, x.t), x.open = u.open, x.work = u.work
  PROVE  Sound(x) /\ (AtPoll(u) => AtPoll(x))
  <1>1. StorySound(x)
    BY StoryKeeps DEF Sound
  <1> QED
    BY <1>1 DEF Sound, JobSound, EssentialSound, BatchSound, StorageSound, Running, AtStorage, AtPoll,
         PluginJob

\* What the screen is told can be true: a result is the result of the job.
Tells(u, active, outcome, needs, zip) ==
    /\ outcome \in Outcomes
    /\ u.e.running /\ ~u.t.mixed => active
    /\ outcome = "failed" /\ zip => u.i.st = "Failed" /\ u.i.zip
    /\ needs /\ outcome = "ok" => PluginJob(u)
    /\ Hears(u, outcome, zip)

\* setInstallProgress keeps the agreement: what it shows is what the queues were told.
LEMMA SetProgressSound ==
  ASSUME NEW u, Sound(u), AtPoll(u), NEW active, NEW outcome, NEW needs, NEW zip,
         Tells(u, active, outcome, needs, zip),
         NEW x \in SetInstallProgress(u, active, outcome, needs, zip)
  PROVE  /\ Sound(x) /\ AtPoll(x) /\ Shape(x)
         /\ x.open = u.open /\ x.work = u.work /\ x.ui = u.ui /\ x.stage = u.stage
         /\ x.s = [active |-> active, outcome |-> outcome, zip |-> zip]
         /\ x.t.mixed = u.t.mixed /\ (Running(x) => Running(u))
         /\ x.i.st = "Completed" => x.i = u.i
         /\ outcome = "failed" /\ zip =>
              x.i = u.i /\ (Running(x) /\ ~x.t.mixed => x.b.waiting)
         /\ needs /\ outcome = "ok" /\ x.e.running =>
              x.e.left \in 0 .. 2 /\ (AtStorage(u) => x.e.left \in 0 .. 1)
         /\ ~(needs /\ outcome = "ok") /\ x.e.running =>
              /\ u.e.running /\ x.e.left = u.e.left /\ outcome \in {"none", "ok"}
              /\ Released(u, x) \/ Running(x)
              /\ AtStorage(u) => x.i = u.i
         /\ (BatchUnseen(u) \/ outcome # "none")
            /\ (QueueUnseen(u) \/ outcome \in {"failed", "cancelled"}
                \/ (needs /\ outcome = "ok")) => Unseen(x)
  <1> DEFINE copies == [active |-> active, outcome |-> outcome, zip |-> zip]
             v == [u EXCEPT !.s = copies]
             due == needs /\ outcome = "ok"
             first == IF due THEN RestartIsDue(v, outcome) ELSE {v}
             batched == UNION {TryAdvance(z, outcome, needs) : z \in first}
  <1>1. /\ Shape(v) /\ v.b = u.b /\ v.e = u.e /\ v.i = u.i /\ v.t = u.t
        /\ v.open = u.open /\ v.work = u.work /\ v.ui = u.ui /\ v.stage = u.stage
        /\ v.s = copies
    <2>1. DOMAIN copies = {"active", "outcome", "zip"}
      OBVIOUS
    <2> HIDE DEF copies
    <2> QED
      BY <2>1 DEF Sound, Shape, Fields
  <1>0. x \in IF outcome = "ok" THEN batched
             ELSE UNION {EssentialAdvance(y, outcome) : y \in batched}
    BY DEF SetInstallProgress
  <1>t. /\ outcome \in Outcomes
        /\ u.e.running /\ ~u.t.mixed => active
        /\ outcome = "failed" /\ zip => u.i.st = "Failed" /\ u.i.zip
        /\ due => PluginJob(u) /\ outcome = "ok"
        /\ Hears(u, outcome, zip)
    BY DEF Tells
  <1>s. v.s.active = active /\ v.s.outcome = outcome /\ v.s.zip = zip
    BY <1>1
  <1>d. due <=> needs /\ outcome = "ok"
    OBVIOUS
  <1> HIDE DEF v, due, copies
  <1>y. PICK y \in batched : IF outcome = "ok" THEN x = y ELSE x \in EssentialAdvance(y, outcome)
    <2> HIDE DEF batched
    <2> QED
      BY <1>0
  <1>2. PICK z \in first : y \in TryAdvance(z, outcome, needs)
    <2> HIDE DEF first
    <2> QED
      BY <1>y
  <1>3. Sound(v) /\ AtPoll(v)
    BY <1>1, ShownIsFree DEF SameTale
  <1>4. PluginJob(v) <=> PluginJob(u)
    BY <1>1 DEF PluginJob
  <1>5. /\ Sound(z) /\ AtPoll(z)
        /\ Beside(v, z) /\ z.b = v.b /\ z.t.mixed = v.t.mixed
        /\ ~due => z = v
        /\ z.e.running => v.e.running
        /\ due /\ z.e.running => z.e.left \in 0 .. 2 /\ (AtStorage(v) => z.e.left \in 0 .. 1)
        /\ z.i.st = "Completed" => z.i = v.i
        /\ BatchUnseen(v) => BatchUnseen(z)
        /\ QueueUnseen(v) \/ due => QueueUnseen(z)
        /\ Running(v) /\ ~v.b.waiting /\ ~v.t.mixed => z.i = v.i
    <2>1. CASE ~due
      <3>1. z = v
        BY <1>2, <2>1
      <3> QED
        BY <1>1, <1>3, <2>1, <3>1 DEF Beside
    <2>2. CASE due /\ v.e.running
      <3>1. z \in EssentialAdvance(v, outcome) /\ outcome = "ok" /\ PluginJob(v)
        BY <1>2, <1>t, <1>4, <2>2 DEF RestartIsDue
      <3> QED
        <4>1. Running(v) /\ ~v.t.mixed => v.b.waiting
          BY <1>3, <2>2 DEF Sound, EssentialSound
        <4> QED
          BY <1>t, <1>3, <2>2, <3>1, <4>1, EssentialAdvanceSound
    <2>3. CASE due /\ ~v.e.running
      <3> DEFINE r == v.reboot \/ v.b.phase \notin {"Running", "Summary"}
      <3>1. z = [v EXCEPT !.reboot = r]
        BY <1>2, <2>3 DEF RestartIsDue
      <3> HIDE DEF r
      <3>2. /\ Shape(z) /\ z.b = v.b /\ z.e = v.e /\ z.i = v.i /\ z.t = v.t
            /\ z.open = v.open /\ z.work = v.work /\ z.ui = v.ui /\ z.stage = v.stage
            /\ z.s = v.s
        BY <1>1, <3>1 DEF Shape, Fields
      <3>3. Sound(z) /\ AtPoll(z)
        BY <1>3, <3>2, ShownIsFree DEF SameTale
      <3> QED
        BY <2>3, <3>2, <3>3 DEF Beside, BatchUnseen, QueueUnseen, Running
    <2> QED
      BY <2>1, <2>2, <2>3
  <1>6. /\ z.e.running /\ ~z.t.mixed => z.s.active
        /\ z.s = copies /\ z.s.zip = zip
    BY <1>1, <1>t, <1>s, <1>5 DEF Beside
  <1>7. outcome = "failed" /\ z.s.zip => z.i.st = "Failed" /\ z.i.zip
    BY <1>1, <1>t, <1>5, <1>6, <1>d
  <1>h. Hears(z, outcome, z.s.zip)
    BY <1>1, <1>t, <1>5, <1>6 DEF Hears, Running
  <1>8. /\ Sound(y) /\ AtPoll(y) /\ Beside(z, y) /\ y.e = z.e
        /\ Released(z, y) \/ AtWork(y)
        /\ AtStorage(z) => y = z
        /\ outcome = "failed" /\ z.s.zip =>
              y.i = z.i /\ (Running(y) /\ ~y.t.mixed => y.b.waiting)
        /\ BatchUnseen(z) \/ outcome # "none" => BatchUnseen(y)
        /\ z.e.running /\ ~z.t.mixed => y.i = z.i
        /\ y.t.mixed = z.t.mixed /\ (Running(y) => Running(z))
    BY <1>t, <1>2, <1>5, <1>6, <1>7, <1>h, TryAdvanceSound
  <1>9. y.i.st = "Completed" => y.i = z.i
    BY <1>8 DEF Released, AtWork, NoJob
  <1>10. y.open = u.open /\ y.work = u.work /\ y.ui = u.ui /\ y.stage = u.stage
         /\ y.s = copies /\ Shape(y)
    BY <1>1, <1>5, <1>6, <1>8 DEF Beside
  <1>11. AtStorage(v) <=> AtStorage(u)
    BY <1>1 DEF AtStorage
  <1>12. AtStorage(z) <=> AtStorage(u)
    BY <1>11, <1>5 DEF Beside, AtStorage
  <1>q. /\ BatchUnseen(u) \/ outcome # "none" => BatchUnseen(y)
        /\ QueueUnseen(u) \/ due => QueueUnseen(y)
    <2>1. (BatchUnseen(v) <=> BatchUnseen(u)) /\ (QueueUnseen(v) <=> QueueUnseen(u))
      BY <1>1 DEF BatchUnseen, QueueUnseen, Running
    <2>2. QueueUnseen(z) => QueueUnseen(y)
      BY <1>8 DEF QueueUnseen
    <2> QED
      BY <1>5, <1>8, <2>1, <2>2
  <1>m. y.t.mixed = u.t.mixed /\ (Running(y) => Running(u))
    BY <1>1, <1>5, <1>8 DEF Running
  <1>13. CASE outcome = "ok"
    <2>1. x = y
      BY <1>y, <1>13
    <2>2. ~due /\ x.e.running => /\ Released(u, x) \/ Running(x)
                                 /\ AtStorage(u) => x.i = u.i
      BY <1>1, <1>5, <1>8, <1>12, <2>1 DEF Released, AtWork, Running
    <2> QED
      BY <1>1, <1>5, <1>8, <1>9, <1>10, <1>11, <1>13, <1>m, <1>q, <2>1, <2>2, <1>d DEF copies, Unseen
  <1>14. CASE outcome # "ok"
    <2>1. x \in EssentialAdvance(y, outcome)
      BY <1>y, <1>14
    <2>2. /\ Sound(x) /\ AtPoll(x) /\ Beside(y, x) /\ x.b = y.b /\ x.t.mixed = y.t.mixed
          /\ x.i = y.i
          /\ x.e.running => y.e.running /\ x.e.left = y.e.left /\ outcome \in {"none", "ok"}
          /\ BatchUnseen(y) => BatchUnseen(x)
          /\ QueueUnseen(y) \/ outcome # "none" => QueueUnseen(x)
      BY <1>t, <1>8, <1>14, <2>1, EssentialAdvanceSound
    <2>3. z = v
      BY <1>5, <1>14, <1>t
    <2>4. x.open = u.open /\ x.work = u.work /\ x.ui = u.ui /\ x.stage = u.stage
          /\ x.s = copies /\ Shape(x)
      BY <1>10, <2>2 DEF Beside
    <2>5. x.e.running => /\ u.e.running /\ x.e.left = u.e.left /\ outcome \in {"none", "ok"}
                         /\ Released(u, x) \/ Running(x)
                         /\ AtStorage(u) => x.i = u.i
      BY <1>1, <1>8, <1>12, <2>2, <2>3 DEF Released, AtWork, Running
    <2>6. outcome = "failed" /\ zip =>
              x.i = u.i /\ (Running(x) /\ ~x.t.mixed => x.b.waiting)
      BY <1>1, <1>6, <1>8, <2>2, <2>3 DEF Running
    <2>7. x.i.st = "Completed" => x.i = u.i
      BY <1>1, <1>9, <2>2, <2>3
    <2>8. x.t.mixed = u.t.mixed /\ (Running(x) => Running(u))
      BY <1>m, <2>2 DEF Running
    <2> QED
      BY <1>14, <1>q, <2>8, <2>2, <2>4, <2>5, <2>6, <2>7 DEF copies, Unseen
  <1> QED
    BY <1>13, <1>14

-----------------------------------------------------------------------------
(* The end of a frame and the main loop *)

\* The same step of the same queue.
Alike(b, c) ==
    /\ c.phase = b.phase /\ c.waiting = b.waiting /\ c.resolved = b.resolved
    /\ c.last = b.last /\ Step(c) = Step(b) /\ c.plugin = b.plugin

\* A step that leaves both queues and the job alone, and the report true.
Same(u, x) ==
    /\ Shape(x) /\ x.e = u.e /\ x.i = u.i /\ x.s = u.s /\ x.reboot = u.reboot
    /\ \/ x.b = u.b /\ x.t = u.t
       \/ /\ Alike(u.b, x.b) /\ x.t.mixed = u.t.mixed /\ SameDebt(u.t, x.t)
          /\ StorySound(u) => StorySound(x)
    /\ AtStorage(x) <=> AtStorage(u)
    /\ "essential" \in x.open => "essential" \in u.open
    /\ "remove" \in x.work => "remove" \in u.work

\* Such a step keeps all that is known, but for a deletion it might arm.
LEMMA SameSound ==
  ASSUME NEW u, Sound(u), NEW x, Same(u, x)
  PROVE  /\ Sound(x)
         /\ Unseen(u) => Unseen(x)
         /\ AtPoll(u) => AtPoll(x)
         /\ AtInput(u) => AtInput(x)
         /\ AtTouch(u) /\ (x.ui.sure => u.ui.sure \/ ~AtStorage(u)) => AtTouch(x)
  <1>s. StorySound(x)
    BY StoryKeeps DEF Same, Sound, SameTale
  <1>1. Sound(x) /\ (Unseen(u) => Unseen(x))
    BY <1>s DEF Same, Sound, JobSound, EssentialSound, BatchSound, StorageSound, Running,
           Unseen, BatchUnseen, QueueUnseen, Alike
  <1>2. (PluginJob(x) <=> PluginJob(u)) /\ (Asks(x) <=> Asks(u)) /\ (Undecided(x) <=> Undecided(u))
    BY DEF Same, PluginJob, Asks, Undecided
  <1>3. (AtPoll(u) => AtPoll(x)) /\ (AtInput(u) => AtInput(x))
    BY <1>2 DEF Same, AtPoll, AtInput, Running, Alike
  <1>4. AtTouch(u) /\ (x.ui.sure => u.ui.sure \/ ~AtStorage(u)) => AtTouch(x)
    BY <1>2 DEF Same, AtTouch, Running, Alike
  <1> QED
    BY <1>1, <1>3, <1>4

LEMMA ToldSound ==
  ASSUME NEW u, Sound(u), AtPoll(u), NEW active, NEW outcome, NEW needs, NEW zip,
         Tells(u, active, outcome, needs, zip),
         NEW x \in Told(u, active, outcome, needs, zip)
  PROVE  /\ Sound(x) /\ AtPoll(x) /\ Shape(x)
         /\ x.open \in {u.open, u.open \ {"protection"}}
         /\ x.work = u.work /\ x.ui = u.ui /\ x.stage = u.stage
         /\ x.s = [active |-> active, outcome |-> outcome, zip |-> zip]
         /\ x.t.mixed = u.t.mixed /\ (Running(x) => Running(u))
         /\ x.i.st = "Completed" => x.i = u.i
         /\ outcome = "failed" /\ zip =>
              x.i = u.i /\ (Running(x) /\ ~x.t.mixed => x.b.waiting)
         /\ needs /\ outcome = "ok" /\ x.e.running =>
              x.e.left \in 0 .. 2 /\ (AtStorage(u) => x.e.left \in 0 .. 1)
         /\ ~(needs /\ outcome = "ok") /\ x.e.running =>
              /\ u.e.running /\ x.e.left = u.e.left /\ outcome \in {"none", "ok"}
              /\ Released(u, x) \/ Running(x)
              /\ AtStorage(u) => x.i = u.i
         /\ (BatchUnseen(u) \/ outcome # "none")
            /\ (QueueUnseen(u) \/ outcome \in {"failed", "cancelled"}
                \/ (needs /\ outcome = "ok")) => Unseen(x)
  <1> DEFINE dark == IF active /\ outcome = "none" THEN {u, Closes(u, "protection")}
                     ELSE {Closes(u, "protection")}
             stale == ~active /\ u.s.outcome \in {"ok", "failed"} /\ u.ui.filter = "state"
             fresh(y) == IF stale THEN [y EXCEPT !.view = <<>>] ELSE y
  <1>1. PICK y \in dark : x \in SetInstallProgress(fresh(y), active, outcome, needs, zip)
    BY DEF Told, Then
  <1> DEFINE v == fresh(y)
  <1>2. y = u \/ y = [u EXCEPT !.open = @ \ {"protection"}]
    BY <1>1 DEF Closes
  <1>3. /\ Shape(y) /\ y.b = u.b /\ y.e = u.e /\ y.i = u.i /\ y.s = u.s /\ y.t = u.t
        /\ y.reboot = u.reboot /\ y.open \in {u.open, u.open \ {"protection"}}
        /\ y.work = u.work /\ y.ui = u.ui /\ y.stage = u.stage
    BY <1>2 DEF Sound, Shape, Fields
  <1>4. /\ Shape(v) /\ v.b = u.b /\ v.e = u.e /\ v.i = u.i /\ v.s = u.s /\ v.t = u.t
        /\ v.reboot = u.reboot /\ v.open \in {u.open, u.open \ {"protection"}}
        /\ v.work = u.work /\ v.ui = u.ui /\ v.stage = u.stage
    <2> HIDE DEF stale
    <2> QED
      BY <1>3 DEF Shape, Fields
  <1>5. x \in SetInstallProgress(v, active, outcome, needs, zip)
    BY <1>1
  <1> HIDE DEF v, dark
  <1>6. Same(u, v)
    BY <1>4 DEF Same, AtStorage
  <1>7. Sound(v) /\ AtPoll(v)
    BY <1>6, SameSound
  <1>8. Tells(v, active, outcome, needs, zip)
    BY <1>4 DEF Tells, PluginJob, Hears, Running
  <1>9. /\ (BatchUnseen(u) => BatchUnseen(v)) /\ (QueueUnseen(u) => QueueUnseen(v))
        /\ AtStorage(v) <=> AtStorage(u)
        /\ Released(v, x) => Released(u, x)
        /\ Running(v) <=> Running(u)
    BY <1>4, <1>6 DEF Same, BatchUnseen, QueueUnseen, Running, Released
  <1> QED
    BY <1>4, <1>5, <1>7, <1>8, <1>9, SetProgressSound

\* What a frame keeps after its input, until the installer is polled.
Flows(u) == Sound(u) /\ Unseen(u) /\ AtPoll(u)

LEMMA ResolveFacts ==
  ASSUME NEW u, Shape(u), NEW keep, NEW x \in ResolveRecovery(u, keep)
  PROVE  /\ Beside(u, x) /\ x.e = u.e /\ x.reboot = u.reboot /\ x.t = u.t
         /\ x.b.phase = u.b.phase /\ x.b.waiting = u.b.waiting
         /\ x.b.last = u.b.last /\ Step(x.b) = Step(u.b) /\ x.b.plugin = u.b.plugin
         /\ \/ x.i = u.i /\ x.b = u.b
            \/ Running(u) /\ u.b.waiting /\ ~u.b.resolved /\ x.i = NoJob /\ x.b.resolved
  <1> DEFINE word == IF keep THEN "Kept" ELSE "Deleted"
             r == Step(u.b)
             v == Recovers(u)
             y == [v EXCEPT !.b.results[r] = word, !.b.resolved = TRUE]
             n == IF u.i.zip THEN u.faults + 1 ELSE u.faults
  <1>1. \/ x = u
        \/ x = [u EXCEPT !.faults = n]
        \/ Running(u) /\ u.b.waiting /\ ~u.b.resolved /\ x = y
    BY DEF ResolveRecovery
  <1>2. Shape(v) /\ Beside(u, v) /\ v.b = u.b /\ v.e = u.e /\ v.t = u.t /\ v.i = NoJob
        /\ v.reboot = u.reboot
    BY DEF Recovers, Shape, Beside, Fields
  <1>3. /\ Beside(u, y) /\ y.e = u.e /\ y.t = u.t /\ y.i = NoJob /\ y.b.resolved
        /\ y.reboot = u.reboot
        /\ y.b.phase = u.b.phase /\ y.b.waiting = u.b.waiting
        /\ y.b.last = u.b.last /\ Step(y.b) = Step(u.b) /\ y.b.plugin = u.b.plugin
    <2> HIDE DEF v, r, word
    <2> QED
      BY <1>2 DEF Shape, Beside, Fields, NoBatch, Step
  <1> HIDE DEF y, n, v
  <1> QED
    BY <1>1, <1>3, SMTT(30) DEF Shape, Beside, Fields

LEMMA ResolveSound ==
  ASSUME NEW u, Sound(u), Unseen(u), NEW keep, NEW x \in ResolveRecovery(u, keep)
  PROVE  /\ Sound(x) /\ Unseen(x) /\ Beside(u, x) /\ x.e = u.e /\ x.t = u.t
         /\ x.b.phase = u.b.phase /\ x.b.waiting = u.b.waiting
         /\ AtPoll(u) => AtPoll(x)
         /\ x.i \in {u.i, NoJob}
  <1>1. /\ Beside(u, x) /\ x.e = u.e /\ x.t = u.t
        /\ x.b.phase = u.b.phase /\ x.b.waiting = u.b.waiting
        /\ x.b.last = u.b.last /\ Step(x.b) = Step(u.b)
        /\ \/ x.i = u.i /\ x.b = u.b
           \/ Running(u) /\ u.b.waiting /\ ~u.b.resolved /\ x.i = NoJob /\ x.b.resolved
    BY ResolveFacts DEF Sound
  <1>2. JobSound(x) /\ (AtPoll(u) => AtPoll(x))
    BY <1>1 DEF Sound, JobSound, NoJob, AtPoll, AtStorage, PluginJob, Beside
  <1>3. EssentialSound(x)
    BY <1>1 DEF Sound, EssentialSound, Running, Beside, NoJob
  <1>4. BatchSound(x) /\ StorageSound(x) /\ Unseen(x)
    BY <1>1 DEF Sound, BatchSound, StorageSound, Running, Beside, NoJob, AtStorage,
                Unseen, BatchUnseen, QueueUnseen
  <1>5. StorySound(x)
    BY ResolveStory DEF Sound
  <1> QED
    BY <1>1, <1>2, <1>3, <1>4, <1>5 DEF Sound, Beside

\* What the report does not tell of the batch.
Untold(b, c) ==
    /\ c.phase = b.phase /\ c.waiting = b.waiting /\ c.resolved = b.resolved
    /\ c.results = b.results /\ c.approved = b.approved /\ c.chosen = b.chosen
    /\ c.queue = b.queue /\ c.at = b.at /\ c.skipped = b.skipped
    /\ c.hasFiles = b.hasFiles /\ c.filesOk = b.filesOk

LEMMA UntoldStory ==
  ASSUME NEW u, StorySound(u), NEW x, Untold(u.b, x.b), x.t = u.t, x.i = u.i
  PROVE  StorySound(x)
  BY DEF Untold, StorySound, Asked, Queued, Past, Future, AtStep, Running, Step

LEMMA AutoKeepFlows ==
  ASSUME NEW u, Flows(u), NEW x \in AutoKeep(u)
  PROVE  Flows(x)
  <1> DEFINE v == [u EXCEPT !.b.tried = TRUE]
  <1>1. PICK y \in ResolveRecovery(v, TRUE) : x = IF y.b.resolved THEN y
                                                ELSE [y EXCEPT !.b.autoFailed = TRUE]
    BY DEF AutoKeep
  <1>2. Same(u, v)
    <2>1. /\ Shape(v) /\ v.e = u.e /\ v.i = u.i /\ v.s = u.s /\ v.reboot = u.reboot /\ v.t = u.t
          /\ v.open = u.open /\ v.work = u.work /\ Alike(u.b, v.b) /\ Untold(u.b, v.b)
      BY DEF Flows, Sound, Shape, Fields, NoBatch, Step, Alike, Untold
    <2> QED
      BY <2>1, UntoldStory DEF Same, SameDebt, AtStorage
  <1> HIDE DEF v
  <1>3. Flows(v)
    BY <1>2, SameSound DEF Flows
  <1>4. Flows(y)
    BY <1>1, <1>3, ResolveSound DEF Flows
  <1>5. ASSUME x = [y EXCEPT !.b.autoFailed = TRUE]
        PROVE  Same(y, x)
    <2>1. /\ Shape(x) /\ x.e = y.e /\ x.i = y.i /\ x.s = y.s /\ x.reboot = y.reboot /\ x.t = y.t
          /\ x.open = y.open /\ x.work = y.work /\ Alike(y.b, x.b) /\ Untold(y.b, x.b)
      BY <1>4, <1>5 DEF Flows, Sound, Shape, Fields, NoBatch, Step, Alike, Untold
    <2> QED
      BY <2>1, UntoldStory DEF Same, SameDebt, AtStorage
  <1> QED
    BY <1>1, <1>4, <1>5, SameSound DEF Flows

LEMMA SameFlows ==
  ASSUME NEW u, Flows(u), NEW x, Same(u, x)
  PROVE  Flows(x)
  BY SameSound DEF Flows

LEMMA SameSelf ==
  ASSUME NEW u, Shape(u)
  PROVE  Same(u, u)
  BY DEF Same

\* What the page shows, and the dialogs but two.
LEMMA LooksSame ==
  ASSUME NEW u, Shape(u), NEW x, DOMAIN x = Fields, DOMAIN x.ui = DOMAIN u.ui,
         x.ui.filter \in {"all", "some", "state"}, x.open \subseteq Dialogs,
         x.view \in Seq(Apps), x.ui.list \in Seq(Apps), x.ui.tab \in Tabs,
         x.b = u.b, x.e = u.e, x.i = u.i, x.s = u.s, x.t = u.t, x.reboot = u.reboot,
         AtStorage(x) <=> AtStorage(u), "essential" \in x.open => "essential" \in u.open,
         "remove" \in x.work => "remove" \in u.work
  PROVE  Same(u, x)
  BY DEF Same, Shape

LEMMA ViewSame ==
  ASSUME NEW u, Shape(u), NEW v \in Seq(Apps)
  PROVE  Same(u, [u EXCEPT !.view = v])
  <1> DEFINE x == [u EXCEPT !.view = v]
  <1>1. /\ DOMAIN x = Fields /\ x.ui = u.ui /\ x.open = u.open /\ x.work = u.work /\ x.view = v
        /\ x.b = u.b /\ x.e = u.e /\ x.i = u.i /\ x.s = u.s /\ x.t = u.t /\ x.reboot = u.reboot
    BY DEF Shape, Fields
  <1> HIDE DEF x
  <1>2. Same(u, x)
    BY <1>1, LooksSame DEF Shape, AtStorage
  <1> QED
    BY <1>2 DEF x

LEMMA TransitionSame ==
  ASSUME NEW u, Shape(u), NEW x \in Transition(u)
  PROVE  Same(u, x)
  BY LooksSame DEF Transition, Shape, Fields, Mode, AtStorage

LEMMA ProtectionTickSame ==
  ASSUME NEW u, Shape(u), NEW x \in ProtectionTick(u)
  PROVE  Same(u, x)
  BY LooksSame, SMTT(30) DEF ProtectionTick, Shape, Fields, Opens, AtStorage, Dialogs

LEMMA FilterScanSame ==
  ASSUME NEW u, Shape(u), NEW x \in FilterScan(u)
  PROVE  Same(u, x)
  <1>1. x = u \/ \E v \in Seq(Apps) : x = [u EXCEPT !.view = v]
    BY DEF FilterScan, Views
  <1> QED
    BY <1>1, SameSelf, ViewSame

\* The end of an update is no result of a queue: what it may do to one is excepted.
LEMMA MixesKeeps ==
  ASSUME NEW u, Sound(u), NEW v, Shape(v), v.b = u.b, v.e = u.e, v.i = u.i, v.s = u.s,
         v.open = u.open, "remove" \in v.work => "remove" \in u.work, SameTale(u.t, v.t),
         v.t.mixed <=> (u.t.mixed \/ Running(u) \/ u.e.running)
  PROVE  /\ Sound(v) /\ (Unseen(u) => Unseen(v)) /\ (AtPoll(u) => AtPoll(v))
         /\ \A outcome \in Outcomes : Tells(v, TRUE, outcome, FALSE, FALSE)
  <1>1. StorySound(v)
    BY StoryKeeps DEF Sound
  <1>2. Sound(v)
    BY <1>1 DEF Sound, JobSound, EssentialSound, BatchSound, StorageSound, AtStorage, Running
  <1>3. /\ Unseen(u) => Unseen(v)
        /\ AtPoll(u) => AtPoll(v)
    BY DEF Unseen, BatchUnseen, QueueUnseen, Running, AtPoll, AtStorage, PluginJob
  <1>4. ASSUME NEW outcome \in Outcomes
        PROVE  Tells(v, TRUE, outcome, FALSE, FALSE)
    BY DEF Tells, Hears, Running
  <1> QED
    BY <1>2, <1>3, <1>4

LEMMA PollUpdateFlows ==
  ASSUME NEW u, Flows(u), NEW x \in PollUpdate(u)
  PROVE  Flows(x)
  <1> DEFINE ended(o) == [u EXCEPT !.work = @ \ {"update"},
                                   !.t.mixed = @ \/ Running(u) \/ u.e.running,
                                   !.faults = IF o = "failed" THEN @ + 1 ELSE @]
  <1>1. \/ x = u
        \/ x \in Told(u, TRUE, "none", FALSE, FALSE)
        \/ \E o \in {"ok", "failed"} : x \in Told(ended(o), TRUE, o, FALSE, FALSE)
    <2> HIDE DEF ended
    <2> QED
      BY DEF PollUpdate, ended
  <1>2. CASE x \in Told(u, TRUE, "none", FALSE, FALSE)
    <2>1. Tells(u, TRUE, "none", FALSE, FALSE)
      BY DEF Tells, Outcomes, Hears
    <2> QED
      BY <1>2, <2>1, ToldSound DEF Flows, Unseen
  <1>3. ASSUME NEW o \in {"ok", "failed"}, x \in Told(ended(o), TRUE, o, FALSE, FALSE)
        PROVE  Flows(x)
    <2> DEFINE v == ended(o)
               mixed == u.t.mixed \/ Running(u) \/ u.e.running
               n == IF o = "failed" THEN u.faults + 1 ELSE u.faults
    <2>1. v = [u EXCEPT !.work = @ \ {"update"}, !.t.mixed = mixed, !.faults = n]
      OBVIOUS
    <2>m. mixed <=> (u.t.mixed \/ Running(u) \/ u.e.running)
      OBVIOUS
    <2>x. x \in Told(v, TRUE, o, FALSE, FALSE)
      BY <1>3
    <2> HIDE DEF v, mixed, n
    <2>2. /\ Shape(v) /\ v.b = u.b /\ v.e = u.e /\ v.i = u.i /\ v.s = u.s /\ v.open = u.open
          /\ v.t.mixed = mixed /\ SameTale(u.t, v.t) /\ v.work = u.work \ {"update"}
      BY <2>1 DEF Flows, Sound, Shape, Fields, NoTruth, SameTale
    <2>3. o \in Outcomes /\ ("remove" \in v.work => "remove" \in u.work)
      BY <1>3, <2>2 DEF Outcomes
    <2>4. Sound(v) /\ Unseen(v) /\ AtPoll(v) /\ Tells(v, TRUE, o, FALSE, FALSE)
      BY <2>2, <2>m, <2>3, MixesKeeps DEF Flows
    <2> QED
      BY <1>3, <2>x, <2>4, ToldSound DEF Flows, Unseen
  <1> QED
    BY <1>1, <1>2, <1>3

\* The poll of the installer: with it the queues know how their jobs ended.
LEMMA PolledSound ==
  ASSUME NEW u, Flows(u), NEW x \in Polled(u)
  PROVE  /\ Sound(x) /\ Unseen(x) /\ AtInput(x)
         /\ x.ui = u.ui /\ x.stage = u.stage /\ x.work = u.work
  <1> DEFINE seen == u.i.seen \/ u.i.st \in Terminal
             v == [u EXCEPT !.i.seen = seen]
             active == u.i.st # "Idle"
             outcome == OutcomeOf(u.i)
             needs == u.i.reboot
             zip == u.i.zip
  <1>1. PICK y \in Told(v, active, outcome, needs, zip) : x \in TimesOut(y)
    BY DEF Polled, Then, Seen
  <1>2. /\ outcome \in Outcomes
        /\ outcome = "ok" <=> u.i.st = "Completed"
        /\ outcome = "failed" <=> u.i.st = "Failed"
        /\ outcome = "none" <=> u.i.st \notin Terminal
    BY DEF OutcomeOf, Outcomes, Terminal
  <1>3. (active <=> u.i.st # "Idle") /\ (seen <=> (u.i.seen \/ u.i.st \in Terminal))
    OBVIOUS
  <1>n. needs = u.i.reboot /\ zip = u.i.zip
    OBVIOUS
  <1>o. outcome = OutcomeOf(u.i)
    OBVIOUS
  <1> HIDE DEF seen
  <1>4. /\ Shape(v) /\ v.b = u.b /\ v.e = u.e /\ v.s = u.s /\ v.t = u.t /\ v.open = u.open
        /\ v.work = u.work /\ v.ui = u.ui /\ v.stage = u.stage
        /\ v.i.st = u.i.st /\ v.i.kind = u.i.kind /\ v.i.of = u.i.of /\ v.i.zip = u.i.zip
        /\ v.i.reboot = u.i.reboot /\ v.i.seen = seen
    BY DEF Flows, Sound, Shape, Fields, NoJob
  <1> HIDE DEF v, active, outcome, needs, zip
  <1>s. StorySound(v)
    BY <1>4, StoryKeeps DEF Flows, Sound, SameTale, OutcomeOf
  <1>5. Sound(v) /\ AtPoll(v)
    BY <1>4, <1>s
    DEF Flows, Sound, JobSound, EssentialSound, BatchSound, StorageSound, AtStorage, AtPoll,
        Running, PluginJob
  <1>6. Tells(v, active, outcome, needs, zip)
    <2>1. v.e.running /\ ~v.t.mixed => active
      BY <1>3, <1>4, <1>5 DEF Sound, EssentialSound
    <2>2. outcome = "failed" /\ zip => v.i.st = "Failed" /\ v.i.zip
      BY <1>2, <1>4, <1>n
    <2>3. needs /\ outcome = "ok" => PluginJob(v)
      BY <1>2, <1>4, <1>5, <1>n DEF Sound, JobSound, PluginJob
    <2>4. Hears(v, outcome, zip)
      BY <1>4, <1>n, <1>o DEF Hears, OutcomeOf
    <2> QED
      BY <1>2, <2>1, <2>2, <2>3, <2>4 DEF Tells
  <1>7. /\ Sound(y) /\ AtPoll(y) /\ Shape(y)
        /\ y.open \in {v.open, v.open \ {"protection"}}
        /\ y.work = v.work /\ y.ui = v.ui /\ y.stage = v.stage
        /\ y.s = [active |-> active, outcome |-> outcome, zip |-> zip]
        /\ y.i.st = "Completed" => y.i = v.i
        /\ outcome = "failed" /\ zip =>
             y.i = v.i /\ (Running(y) /\ ~y.t.mixed => y.b.waiting)
        /\ needs /\ outcome = "ok" /\ y.e.running =>
             y.e.left \in 0 .. 2 /\ (AtStorage(v) => y.e.left \in 0 .. 1)
        /\ ~(needs /\ outcome = "ok") /\ y.e.running =>
             /\ v.e.running /\ y.e.left = v.e.left /\ outcome \in {"none", "ok"}
             /\ Released(v, y) \/ Running(y)
             /\ AtStorage(v) => y.i = v.i
        /\ (BatchUnseen(v) \/ outcome # "none")
           /\ (QueueUnseen(v) \/ outcome \in {"failed", "cancelled"}
               \/ (needs /\ outcome = "ok")) => Unseen(y)
    BY <1>1, <1>5, <1>6, ToldSound
  <1>8. Unseen(y)
    <2>1. BatchUnseen(v) \/ outcome # "none"
      BY <1>2, <1>3, <1>4 DEF Flows, Unseen, BatchUnseen, Running
    <2>2. \/ QueueUnseen(v) \/ outcome \in {"failed", "cancelled"}
          \/ needs /\ outcome = "ok"
      <3>1. CASE outcome = "none"
        BY <1>2, <1>3, <1>4, <3>1 DEF Flows, Unseen, QueueUnseen
      <3>2. CASE outcome = "ok"
        BY <1>2, <1>4, <1>5, <1>n, <3>2 DEF Sound, JobSound, EssentialSound, QueueUnseen
      <3> QED
        BY <1>2, <3>1, <3>2 DEF Outcomes
    <2> QED
      BY <1>7, <2>1, <2>2
  <1>9. AtInput(y)
    <2>1. y.s.active = active /\ y.s.outcome = outcome /\ y.s.zip = zip
      BY <1>7
    <2>2. AtStorage(y) <=> AtStorage(v)
      BY <1>7 DEF AtStorage
    <2>c. PluginJob(v) /\ ~(needs /\ outcome = "ok") => v.i.st \in {"Working", "Paused"}
      BY <1>2, <1>4, <1>5, <1>n DEF Sound, JobSound, PluginJob
    <2>3. y.b.phase # "Running" /\ y.e.running /\ y.e.left > 2 /\ PluginJob(y) => Asks(y)
      <3> SUFFICES ASSUME y.b.phase # "Running", y.e.running, y.e.left > 2, PluginJob(y)
                   PROVE  Asks(y)
        OBVIOUS
      <3>1. ~(needs /\ outcome = "ok")
        BY <1>7
      <3>2. y.i = v.i
        BY <1>7, <3>1 DEF Released, Running, PluginJob, NoJob
      <3>3. v.i.st \in {"Working", "Paused"}
        BY <3>1, <3>2, <2>c DEF PluginJob
      <3> QED
        BY <1>2, <1>3, <1>4, <2>1, <3>3 DEF Asks, Terminal
    <2>4. AtStorage(y) /\ y.e.running /\ PluginJob(y) => y.e.left \in 0 .. 1
      <3> SUFFICES ASSUME AtStorage(y), y.e.running, PluginJob(y), ~(needs /\ outcome = "ok")
                   PROVE  y.e.left \in 0 .. 1
        BY <1>7, <2>2
      <3>1. y.i = v.i /\ v.e.running /\ y.e.left = v.e.left
        BY <1>7, <2>2
      <3> QED
        BY <1>5, <2>2, <2>c, <3>1 DEF AtPoll, PluginJob
    <2>5. Undecided(y) => y.i.st = "Failed" /\ y.i.zip
      BY <1>2, <1>4, <1>7, <1>n, <2>1 DEF Undecided
    <2>6. Undecided(y) /\ Running(y) /\ ~y.t.mixed => y.b.waiting
      BY <1>7, <2>1 DEF Undecided
    <2> QED
      BY <2>3, <2>4, <2>5, <2>6 DEF AtInput
  <1>10. CASE x = y
    BY <1>4, <1>7, <1>8, <1>9, <1>10
  <1>11. CASE y.i.st = "Completed" /\ x = Ack(y)
    <2>1. /\ Beside(y, x) /\ x.b = y.b /\ x.e = y.e /\ x.t = y.t
          /\ x.i = y.i \/ x.i = NoJob
      BY <1>7, <1>11, AckFacts
    <2>2. y.i.seen
      BY <1>3, <1>4, <1>7, <1>11 DEF Terminal
    <2>3. /\ ~(Running(y) /\ ~y.b.waiting /\ ~y.t.mixed)
          /\ ~(y.e.running /\ ~y.t.mixed)
      BY <1>8, <2>2 DEF Unseen, BatchUnseen, QueueUnseen
    <2>s. StorySound(x)
      BY <1>7, <2>1, <2>3, StoryKeeps DEF Sound, SameTale, NoJob
    <2>4. Sound(x)
      BY <1>7, <1>11, <2>1, <2>3, <2>s
      DEF Sound, JobSound, EssentialSound, BatchSound, StorageSound, AtStorage, Running, Beside,
          NoJob
    <2>5. Unseen(x)
      BY <2>1, <2>3 DEF Unseen, BatchUnseen, QueueUnseen, Running
    <2>6. AtInput(x)
      <3>1. PluginJob(x) => PluginJob(y)
        BY <2>1 DEF PluginJob, NoJob
      <3>2. (Asks(x) <=> Asks(y)) /\ (Undecided(x) <=> Undecided(y))
        BY <2>1 DEF Beside, Asks, Undecided
      <3>3. ~Undecided(y)
        BY <1>9, <1>11 DEF AtInput
      <3> QED
        BY <1>9, <2>1, <3>1, <3>2, <3>3 DEF AtInput, Beside, AtStorage
    <2> QED
      BY <1>4, <1>7, <2>1, <2>4, <2>5, <2>6 DEF Beside
  <1> QED
    BY <1>1, <1>10, <1>11 DEF TimesOut

LEMMA RebuiltSame ==
  ASSUME NEW u, Shape(u), NEW x \in Rebuilt(u)
  PROVE  Same(u, x) /\ x.ui = u.ui
  <1>1. <<>> \in Seq(Apps)
    OBVIOUS
  <1>2. PICK v \in Seq(Apps) : x = [u EXCEPT !.view = v]
    BY <1>1 DEF Rebuilt, Shape, Views
  <1>3. x.ui = u.ui
    BY <1>2 DEF Shape, Fields
  <1> QED
    BY <1>2, <1>3, ViewSame

LEMMA SameStory ==
  ASSUME NEW u, NEW x, Same(u, x)
  PROVE  Alike(u.b, x.b) /\ x.t.mixed = u.t.mixed /\ (StorySound(u) => StorySound(x))
  <1>1. ASSUME StorySound(u), x.b = u.b, x.t = u.t, x.i = u.i
        PROVE  StorySound(x)
    BY <1>1, StoryKeeps DEF SameTale
  <1> QED
    BY <1>1 DEF Same, Alike

LEMMA SameTrans ==
  ASSUME NEW u, NEW v, NEW x, Same(u, v), Same(v, x)
  PROVE  Same(u, x)
  <1>1. /\ Alike(u.b, v.b) /\ v.t.mixed = u.t.mixed /\ (StorySound(u) => StorySound(v))
        /\ Alike(v.b, x.b) /\ x.t.mixed = v.t.mixed /\ (StorySound(v) => StorySound(x))
        /\ SameDebt(u.t, x.t)
    BY SameStory DEF Same, SameDebt
  <1> QED
    BY <1>1 DEF Same, Alike

LEMMA CatalogComesSame ==
  ASSUME NEW u, Shape(u), NEW x \in CatalogComes(u)
  PROVE  Same(u, x)
  <1>1. CASE x = u
    BY <1>1, SameSelf
  <1>2. ASSUME NEW y \in {u} \cup Taken(u),
               x = [y EXCEPT !.ui.loading = FALSE, !.stage = IF @ = "catalog" THEN "theme" ELSE @]
        PROVE  Same(u, x)
    <2>1. Same(u, y)
      <3>1. CASE y = u
        BY <3>1, SameSelf
      <3>2. CASE y \in Taken(u)
        <4>1. PICK list \in Lists[u.ui.tab] :
                 y = [Closes(u, "filter") EXCEPT
                        !.view = list,
                        !.ui = [@ EXCEPT !.list = list, !.filter = "all", !.sel = 1]]
          BY <3>2 DEF Taken
        <4> DEFINE c == Closes(u, "filter")
                   page == [c.ui EXCEPT !.list = list, !.filter = "all", !.sel = 1]
        <4>c. /\ DOMAIN c = Fields /\ c.ui = u.ui /\ c.open = u.open \ {"filter"}
              /\ c.work = u.work /\ c.view = u.view /\ c.reboot = u.reboot
              /\ c.b = u.b /\ c.e = u.e /\ c.i = u.i /\ c.s = u.s /\ c.t = u.t
          BY DEF Shape, Fields, Closes
        <4> HIDE DEF c
        <4>2. Same(u, c) /\ c.ui = u.ui
          BY <4>c, LooksSame DEF Shape, AtStorage
        <4> USE DEF c
        <4>3. y = [c EXCEPT !.view = list, !.ui = page]
          BY <4>1
        <4> HIDE DEF c
        <4>4. /\ DOMAIN page = DOMAIN u.ui /\ page.filter = "all"
              /\ page.list = list /\ page.tab = u.ui.tab /\ list \in Seq(Apps)
          BY <4>2, CatalogScreenAssumption DEF Shape
        <4> HIDE DEF page
        <4>5. Same(c, y)
          BY <4>2, <4>3, <4>4 DEF Shape, Fields, AtStorage, Same
        <4> QED
          BY <4>2, <4>5, SameTrans
      <3> QED
        BY <1>2, <3>1, <3>2
    <2> DEFINE place == IF y.stage = "catalog" THEN "theme" ELSE y.stage
    <2>2. x = [y EXCEPT !.ui.loading = FALSE, !.stage = place]
      BY <1>2
    <2> HIDE DEF place
    <2>3. Shape(y)
      BY <2>1 DEF Same
    <2>4. Same(y, x)
      BY <2>2, <2>3 DEF Same, Shape, Fields, AtStorage
    <2> QED
      BY <2>1, <2>4, SameTrans
  <1>3. CASE x \in Refreshed(u)
    <2> DEFINE with(list) == Rebuilt([u EXCEPT !.ui.list = list])
    <2>1. PICK list \in Lists[u.ui.tab], y \in UNION {with(l) : l \in Lists[u.ui.tab]} :
             \/ \E n : x = [y EXCEPT !.ui.sel = n]
             \/ \E n : x = [y EXCEPT !.ui.sel = n, !.ui.mode = "FULL_CATALOG"]
      BY <1>3 DEF Refreshed
    <2>2. PICK l \in Lists[u.ui.tab] : y \in with(l)
      <3> HIDE DEF with
      <3> QED
        BY <2>1
    <2> DEFINE v == [u EXCEPT !.ui.list = l]
    <2>3. y \in Rebuilt(v)
      BY <2>2
    <2>l. l \in Seq(Apps)
      BY CatalogScreenAssumption DEF Shape
    <2>v. /\ DOMAIN v = Fields /\ DOMAIN v.ui = DOMAIN u.ui /\ v.ui.filter = u.ui.filter
          /\ v.ui.tab = u.ui.tab /\ v.ui.list = l /\ v.view = u.view /\ v.reboot = u.reboot
          /\ v.open = u.open /\ v.work = u.work
          /\ v.b = u.b /\ v.e = u.e /\ v.i = u.i /\ v.s = u.s /\ v.t = u.t
      BY DEF Shape, Fields
    <2> HIDE DEF v
    <2>4. Same(u, v)
      BY <2>l, <2>v, LooksSame DEF Shape, AtStorage
    <2> USE DEF v
    <2> HIDE DEF v
    <2>5. Same(v, y) /\ Shape(y)
      BY <2>3, <2>4, RebuiltSame DEF Same
    <2>6. Same(y, x)
      <3>1. ASSUME NEW n, x = [y EXCEPT !.ui.sel = n]
            PROVE  Same(y, x)
        BY <2>5, <3>1 DEF Same, Shape, Fields, AtStorage
      <3>2. ASSUME NEW n, x = [y EXCEPT !.ui.sel = n, !.ui.mode = "FULL_CATALOG"]
            PROVE  Same(y, x)
        BY <2>5, <3>2 DEF Same, Shape, Fields, AtStorage
      <3> QED
        BY <2>1, <3>1, <3>2
    <2> QED
      BY <2>4, <2>5, <2>6, SameTrans
  <1> QED
    BY <1>1, <1>2, <1>3 DEF CatalogComes

\* What holds between two frames.
Rests(u) == Sound(u) /\ Unseen(u) /\ AtInput(u)

LEMMA SameRests ==
  ASSUME NEW u, Rests(u), NEW x, Same(u, x)
  PROVE  Rests(x)
  BY SameSound DEF Rests

LEMMA StepsSame ==
  ASSUME NEW u, Shape(u),
         NEW x \in ThemeStep(u) \cup NewsStep(u) \cup NoticeStep(u) \cup FilterStep(u)
  PROVE  Same(u, x)
  <1>1. \E s, d : x \in {u, At(u, s), At(Opens(u, d), s), Opens(u, d), Closes(u, d)}
                  /\ d \in {"theme", "news", "archive", "filter"}
    BY DEF ThemeStep, NewsStep, NoticeStep, FilterStep
  <1> QED
    <2>1. PICK s, d : /\ x \in {u, At(u, s), At(Opens(u, d), s), Opens(u, d), Closes(u, d)}
                      /\ d \in {"theme", "news", "archive", "filter"}
      BY <1>1
    <2>2. d # "storage" /\ d # "essential" /\ d \in Dialogs
      BY <2>1 DEF Dialogs
    <2>3. x = u => Same(u, x)
      BY SameSelf
    <2>4. x \in {At(u, s), Opens(u, d), Closes(u, d)} => Same(u, x)
      <3>1. x = At(u, s) => Same(u, x)
        BY DEF Same, Shape, Fields, AtStorage, At
      <3>2. x = Opens(u, d) => Same(u, x)
        BY <2>2 DEF Same, Shape, Fields, AtStorage, Opens
      <3>3. x = Closes(u, d) => Same(u, x)
        BY <2>2 DEF Same, Shape, Fields, AtStorage, Closes
      <3> QED
        BY <3>1, <3>2, <3>3
    <2>5. x = At(Opens(u, d), s) => Same(u, x)
      BY <2>2 DEF Same, Shape, Fields, AtStorage, At, Opens
    <2> QED
      BY <2>1, <2>3, <2>4, <2>5

LEMMA EssentialStepRests ==
  ASSUME NEW u, Rests(u), NEW x \in EssentialStep(u)
  PROVE  Rests(x)
  <1>1. \/ x = u
        \/ x = At(u, "over")
        \/ \E n \in 1 .. Essential : /\ x = [At(Opens(u, "essential"), "over") EXCEPT !.e.left = n]
                                    /\ ~u.e.running
    BY DEF EssentialStep
  <1>2. CASE x = At(u, "over")
    <2>1. Shape(u)
      BY DEF Rests, Sound
    <2>2. /\ DOMAIN x = Fields /\ x.ui = u.ui /\ x.view = u.view /\ x.open = u.open
          /\ x.work = u.work /\ x.b = u.b /\ x.e = u.e /\ x.i = u.i /\ x.s = u.s
          /\ x.t = u.t /\ x.reboot = u.reboot
      BY <1>2, <2>1 DEF Shape, Fields, At
    <2>3. Same(u, x)
      BY <2>1, <2>2, LooksSame DEF Shape, AtStorage
    <2> QED
      BY <2>3, SameRests
  <1>3. ASSUME NEW n \in 1 .. Essential, ~u.e.running,
               x = [At(Opens(u, "essential"), "over") EXCEPT !.e.left = n]
        PROVE  Rests(x)
    <2>1. n \in 0 .. 3 /\ n # 0
      BY InstallAllAssumption DEF InstallAllAssumption
    <2>2. /\ Shape(x) /\ x.b = u.b /\ x.i = u.i /\ x.s = u.s /\ x.t = u.t /\ x.work = u.work
          /\ ~x.e.running /\ x.e.left = n /\ (AtStorage(x) <=> AtStorage(u))
      BY <1>3 DEF Rests, Sound, Shape, Fields, AtStorage, At, Opens, NoQueue, Dialogs
    <2>s. StorySound(x)
      BY <2>2, StoryKeeps DEF Rests, Sound, SameTale
    <2>3. Sound(x)
      BY <2>1, <2>2, <2>s
      DEF Rests, Sound, JobSound, EssentialSound, BatchSound, StorageSound, Running
    <2>4. Unseen(x) /\ AtInput(x)
      BY <1>3, <2>2
      DEF Rests, Unseen, BatchUnseen, QueueUnseen, Running, AtInput, Undecided
    <2> QED
      BY <2>3, <2>4 DEF Rests
  <1> QED
    BY <1>1, <1>2, <1>3

\* The rest of a pass of main.cpp, from the poll to the next frame.
LEMMA MainLoopRests ==
  ASSUME NEW u, Flows(u), NEW x \in MainLoop(u)
  PROVE  Rests(x)
  <1>1. PICK u6 : u6 \in Then(Then(Then(Then(Then(CatalogComes(u), Polled), ThemeStep), NewsStep),
                          EssentialStep), NoticeStep) /\ x \in FilterStep(u6)
    BY DEF MainLoop, Then
  <1>2. PICK u5 : u5 \in Then(Then(Then(Then(CatalogComes(u), Polled), ThemeStep), NewsStep),
                          EssentialStep) /\ u6 \in NoticeStep(u5)
    BY <1>1 DEF Then
  <1>3. PICK u4 : u4 \in Then(Then(Then(CatalogComes(u), Polled), ThemeStep), NewsStep)
                  /\ u5 \in EssentialStep(u4)
    BY <1>2 DEF Then
  <1>4. PICK u3 : u3 \in Then(Then(CatalogComes(u), Polled), ThemeStep) /\ u4 \in NewsStep(u3)
    BY <1>3 DEF Then
  <1>5. PICK u2 : u2 \in Then(CatalogComes(u), Polled) /\ u3 \in ThemeStep(u2)
    BY <1>4 DEF Then
  <1>6. PICK u1 : u1 \in CatalogComes(u) /\ u2 \in Polled(u1)
    BY <1>5 DEF Then
  <1>7. Flows(u1)
    BY <1>6, CatalogComesSame, SameFlows DEF Flows, Sound
  <1>8. Rests(u2)
    BY <1>6, <1>7, PolledSound DEF Rests
  <1>9. Rests(u3) /\ Rests(u4)
    BY <1>4, <1>5, <1>8, StepsSame, SameRests DEF Rests, Sound
  <1>10. Rests(u5)
    BY <1>3, <1>9, EssentialStepRests
  <1> QED
    BY <1>1, <1>2, <1>10, StepsSame, SameRests DEF Rests, Sound

\* The end of updateAndDraw.
LEMMA FrameEndFlows ==
  ASSUME NEW u, Flows(u), NEW x \in FrameEnd(u)
  PROVE  Flows(x)
  <1> DEFINE kept == {u} \cup IF AutoKeepDue(u) THEN AutoKeep(u) ELSE {}
  <1>1. \A y \in kept : Flows(y)
    BY AutoKeepFlows
  <1>2. \/ x \in kept
        \/ x \in Then(Then(Then(Then(kept, Transition), PollUpdate), ProtectionTick), FilterScan)
    BY DEF FrameEnd
  <1> HIDE DEF kept
  <1>3. CASE x \in Then(Then(Then(Then(kept, Transition), PollUpdate), ProtectionTick), FilterScan)
    <2>1. PICK u3 : u3 \in Then(Then(Then(kept, Transition), PollUpdate), ProtectionTick)
                    /\ x \in FilterScan(u3)
      BY <1>3 DEF Then
    <2>2. PICK u2 : u2 \in Then(Then(kept, Transition), PollUpdate) /\ u3 \in ProtectionTick(u2)
      BY <2>1 DEF Then
    <2>3. PICK u1 : u1 \in Then(kept, Transition) /\ u2 \in PollUpdate(u1)
      BY <2>2 DEF Then
    <2>4. PICK u0 \in kept : u1 \in Transition(u0)
      BY <2>3 DEF Then
    <2>5. Flows(u1)
      BY <1>1, <2>4, TransitionSame, SameFlows DEF Flows, Sound
    <2>6. Flows(u2)
      BY <2>3, <2>5, PollUpdateFlows
    <2>7. Flows(u3)
      BY <2>2, <2>6, ProtectionTickSame, SameFlows DEF Flows, Sound
    <2> QED
      BY <2>1, <2>7, FilterScanSame, SameFlows DEF Flows, Sound
  <1> QED
    BY <1>1, <1>2, <1>3

-----------------------------------------------------------------------------
(* What a handler does while the storage menu is closed. *)

\* A failed job whose archive is not decided about is waited for.
Decided(u) == Undecided(u) /\ Running(u) /\ ~u.t.mixed => u.b.waiting
Ready(u) == Sound(u) /\ Unseen(u) /\ Decided(u) /\ ~AtStorage(u)

\* What a step does to the facts that only some places of a frame know.
Moves(u, x) ==
    /\ x.b.phase = "Hidden" /\ x.e.running /\ x.e.left > 2 /\ PluginJob(x)
       /\ x.i.st # "Working" =>
         \/ Asks(x)
         \/ /\ u.b.phase # "Running" /\ u.e.running /\ x.e.left = u.e.left
            /\ PluginJob(u) /\ x.i.st = u.i.st /\ ~Asks(u)
    /\ AtStorage(x) =>
         /\ u.b.phase = "Hidden" /\ Takes(u) /\ ~Asks(u)
         /\ x.e = u.e /\ x.i = u.i /\ ~x.ui.sure /\ "remove" \notin x.work
    /\ Undecided(x) /\ Running(x) /\ ~x.t.mixed /\ ~x.b.waiting => Undecided(u) /\ u.i.st # "Failed"

\* A handler turned u into x.
Handled(u, x) == Sound(x) /\ Unseen(x) /\ Moves(u, x)

LEMMA SameHandled ==
  ASSUME NEW u, Ready(u), NEW x, Same(u, x)
  PROVE  Handled(u, x) /\ Ready(x)
  <1>1. Sound(x) /\ Unseen(x)
    BY SameSound DEF Ready
  <1>2. (PluginJob(x) <=> PluginJob(u)) /\ (Asks(x) <=> Asks(u)) /\ (Undecided(x) <=> Undecided(u))
        /\ (AtStorage(x) <=> AtStorage(u)) /\ (Running(x) <=> Running(u))
        /\ x.b.phase = u.b.phase
    BY DEF Same, PluginJob, Asks, Undecided, Running, Alike
  <1>3. Decided(x)
    BY <1>2 DEF Ready, Decided, Same, Alike
  <1>4. Moves(u, x)
    BY <1>2 DEF Ready, Decided, Same, Alike, Moves, Running
  <1> QED
    BY <1>1, <1>2, <1>3, <1>4 DEF Handled, Ready

LEMMA AfterSame ==
  ASSUME NEW u, NEW v, Same(u, v), NEW x, Handled(v, x)
  PROVE  Handled(u, x)
  <1>1. (PluginJob(v) <=> PluginJob(u)) /\ (Asks(v) <=> Asks(u)) /\ (Undecided(v) <=> Undecided(u))
        /\ v.b.phase = u.b.phase /\ (Takes(v) <=> Takes(u)) /\ v.i = u.i /\ v.e = u.e
    BY DEF Same, PluginJob, Asks, Undecided, Alike, Takes
  <1> QED
    BY <1>1 DEF Handled, Moves

\* A step handled at the buttons, and at the finger.
LEMMA HandledAtInput ==
  ASSUME NEW u, Rests(u), ~AtStorage(u), NEW x, Handled(u, x)
  PROVE  Sound(x) /\ Unseen(x) /\ AtTouch(x)
  <1>1. Sound(x) /\ Unseen(x) /\ Moves(u, x)
    BY DEF Handled
  <1>2. x.b.phase = "Hidden" /\ x.e.running /\ x.e.left > 2 /\ PluginJob(x) /\ x.i.st # "Working"
         => Asks(x)
    BY <1>1 DEF Rests, AtInput, Moves
  <1>3. AtStorage(x) /\ x.e.running /\ PluginJob(x) =>
         \/ x.e.left \in 0 .. 1
         \/ x.e.left = 2 /\ x.i.st = "Completed" /\ ~x.ui.sure /\ "remove" \notin x.work
    <2> SUFFICES ASSUME AtStorage(x), x.e.running, PluginJob(x)
                 PROVE  /\ x.e.left \in 0 .. 2 /\ x.i.st = "Completed"
                        /\ ~x.ui.sure /\ "remove" \notin x.work
      OBVIOUS
    <2>1. /\ u.b.phase = "Hidden" /\ Takes(u) /\ ~Asks(u)
          /\ x.e = u.e /\ x.i = u.i /\ ~x.ui.sure /\ "remove" \notin x.work
      BY <1>1 DEF Moves
    <2>2. x.i.st = "Completed" /\ PluginJob(u)
      BY <2>1 DEF Takes, PluginJob, Terminal
    <2>3. u.e.left \in 0 .. 3 /\ ~(u.e.left > 2)
      BY <2>1, <2>2 DEF Rests, AtInput, Sound, EssentialSound
    <2> QED
      BY <2>1, <2>2, <2>3
  <1>4. Undecided(x) /\ Running(x) /\ ~x.t.mixed => x.b.waiting
    BY <1>1 DEF Moves, Rests, AtInput
  <1> QED
    BY <1>1, <1>2, <1>3, <1>4 DEF AtTouch

LEMMA HandledAtTouch ==
  ASSUME NEW u, Sound(u), AtTouch(u), ~AtStorage(u), NEW x, Handled(u, x)
  PROVE  Flows(x)
  <1>1. Sound(x) /\ Unseen(x) /\ Moves(u, x)
    BY DEF Handled
  <1>2. AtPoll(x)
    <2> SUFFICES ASSUME AtStorage(x), x.e.running, PluginJob(x)
                 PROVE  /\ x.e.left \in 0 .. 2 /\ x.i.st = "Completed" /\ "remove" \notin x.work
      BY DEF AtPoll
    <2>1. /\ u.b.phase = "Hidden" /\ Takes(u) /\ ~Asks(u)
          /\ x.e = u.e /\ x.i = u.i /\ "remove" \notin x.work
      BY <1>1 DEF Moves
    <2>2. x.i.st = "Completed" /\ PluginJob(u)
      BY <2>1 DEF Takes, PluginJob, Terminal
    <2>3. u.e.left \in 0 .. 3 /\ ~(u.e.left > 2)
      BY <2>1, <2>2 DEF AtTouch, Sound, EssentialSound
    <2> QED
      BY <2>1, <2>2, <2>3
  <1> QED
    BY <1>1, <1>2 DEF Flows

\* What a link of a title can be.
LinkKinds == {"app", "game", "data", "plugin"}

LEMMA LinkHandled ==
  ASSUME NEW u, Ready(u), NEW kind \in LinkKinds, NEW x \in Link(u, kind)
  PROVE  Handled(u, x) /\ x.open = u.open /\ x.b = u.b /\ x.e = u.e /\ x.s = u.s
  <1> DEFINE mixed == u.t.mixed \/ (Takes(u) /\ (u.b.phase = "Running" \/ u.e.running))
             dropped == u.t.dropped \/ (Takes(u) /\ kind = "plugin" /\ u.b.phase = "Summary")
             v == [u EXCEPT !.t.mixed = mixed, !.t.dropped = dropped]
  <1>1. x \in Refusals(v) \/ (Takes(u) /\ x = Starts(v, kind, 0))
    BY DEF Link
  <1>2. mixed <=> (u.t.mixed \/ (Takes(u) /\ (u.b.phase = "Running" \/ u.e.running)))
    OBVIOUS
  <1> HIDE DEF mixed, dropped
  <1>3. /\ Shape(v) /\ Beside(u, v) /\ v.b = u.b /\ v.e = u.e /\ v.i = u.i /\ v.reboot = u.reboot
        /\ v.t.mixed = mixed /\ SameTale(u.t, v.t)
    BY DEF Ready, Sound, Shape, Beside, Fields, NoTruth, SameTale
  <1> HIDE DEF v
  <1>4. /\ Beside(u, x) /\ x.b = u.b /\ x.e = u.e /\ x.t.mixed = mixed
        /\ SameTale(u.t, x.t)
        /\ \/ x.i = u.i
           \/ /\ Takes(u) /\ x.i.of = 0 /\ ~x.i.zip /\ ~x.i.reboot /\ ~x.i.seen
              /\ x.i.st \in {"Working", "Failed"}
    <2>1. CASE x \in Refusals(v)
      <3>1. /\ Beside(v, x) /\ x.b = v.b /\ x.e = v.e /\ x.t = v.t
            /\ x.i = v.i \/ (Takes(v) /\ FailedAtOnce(x.i))
        BY <1>3, <2>1, RefusalsFacts
      <3> QED
        BY <1>3, <3>1 DEF Beside, Takes, FailedAtOnce, SameTale
    <2>2. CASE Takes(u) /\ x = Starts(v, kind, 0)
      <3>1. /\ Beside(v, x) /\ x.b = v.b /\ x.e = v.e /\ x.t.mixed = v.t.mixed
            /\ SameTale(v.t, x.t) /\ x.i.of = 0
            /\ x.i.st = "Working" /\ ~x.i.zip /\ ~x.i.seen /\ ~x.i.reboot
        BY <1>3, <2>2, StartsFacts DEF SameTale
      <3> QED
        BY <1>3, <2>2, <3>1 DEF Beside, SameTale
    <2> QED
      BY <1>1, <2>1, <2>2
  <1>s. StorySound(x)
    BY <1>2, <1>4, StoryKeeps DEF Ready, Sound, Running
  <1>5. JobSound(x)
    BY <1>4 DEF Ready, Sound, JobSound
  <1>6. EssentialSound(x)
    BY <1>2, <1>4 DEF Ready, Sound, EssentialSound, Beside, Running
  <1>7. BatchSound(x) /\ StorageSound(x)
    BY <1>2, <1>4 DEF Ready, Sound, BatchSound, StorageSound, Beside, AtStorage, Running
  <1>8. Unseen(x)
    BY <1>2, <1>4 DEF Ready, Unseen, BatchUnseen, QueueUnseen, Running
  <1>9. Moves(u, x)
    <2>1. x.i.st \notin {"Working", "Failed"} => x.i = u.i
      BY <1>4
    <2>2. ~AtStorage(x) /\ (Asks(x) <=> Asks(u)) /\ (Undecided(x) <=> Undecided(u))
      BY <1>4 DEF Ready, AtStorage, Beside, Asks, Undecided
    <2>3. PluginJob(x) /\ x.i.st # "Working" => x.i = u.i
      BY <2>1 DEF PluginJob
    <2>4. Undecided(x) /\ Running(x) /\ ~x.t.mixed => x.b.waiting
      BY <1>2, <1>4, <2>2 DEF Ready, Decided, Running
    <2> QED
      BY <1>4, <2>2, <2>3, <2>4 DEF Moves, PluginJob
  <1> QED
    BY <1>4, <1>s, <1>5, <1>6, <1>7, <1>8, <1>9 DEF Handled, Sound, Beside

LEMMA NotedFacts ==
  ASSUME NEW u, Shape(u), NEW of, NEW end
  PROVE  LET x == Noted(u, of, end)
         IN /\ Beside(u, x) /\ x.b = u.b /\ x.e = u.e /\ x.i = u.i /\ x.reboot = u.reboot
            /\ x.t.mixed = u.t.mixed /\ x.t.app = u.t.app /\ x.t.kinds = u.t.kinds
            /\ x.t.receipt = u.t.receipt
            /\ of = 0 => x.t.ended = u.t.ended
            /\ of # 0 => Becomes(u.t.ended, x.t.ended, of, end)
  <1> DEFINE x == Noted(u, of, end)
             h == [u.t.ended EXCEPT ![of] = end]
  <1>1. Becomes(u.t.ended, h, of, end)
    BY DEF Becomes
  <1>2. /\ of = 0 => x = u
        /\ of # 0 => x = [u EXCEPT !.t.ended = h]
    BY DEF Noted
  <1> HIDE DEF x, h
  <1>3. /\ Beside(u, x) /\ x.b = u.b /\ x.e = u.e /\ x.i = u.i /\ x.reboot = u.reboot
        /\ x.t.mixed = u.t.mixed /\ x.t.app = u.t.app /\ x.t.kinds = u.t.kinds
        /\ x.t.receipt = u.t.receipt
        /\ of = 0 => x.t.ended = u.t.ended
        /\ of # 0 => x.t.ended = h
    BY <1>2 DEF Beside, Shape, Fields, NoTruth
  <1> QED
    BY <1>1, <1>3 DEF x

\* A job that worked ends, and the history has it.
LEMMA EndsStory ==
  ASSUME NEW u, BatchSound(u), StorySound(u), u.i.st \in {"Working", "Paused"},
         NEW x, x.b = u.b, x.i.of = u.i.of, x.i.kind = u.i.kind, OutcomeOf(x.i) # "none",
         u.t.mixed => x.t.mixed, x.t.app = u.t.app, x.t.kinds = u.t.kinds,
         x.t.receipt = u.t.receipt,
         u.i.of = 0 => x.t.ended = u.t.ended,
         u.i.of # 0 => Becomes(u.t.ended, x.t.ended, u.i.of, OutcomeOf(x.i))
  PROVE  StorySound(x)
  <1> SUFFICES ASSUME ~u.t.mixed
               PROVE  StorySound(x)
    BY DEF StorySound
  <1>1. CASE ~Running(u)
    <2>1. u.i.of = 0
      BY <1>1 DEF StorySound
    <2> QED
      BY <1>1, <2>1, StoryKeeps DEF SameTale
  <1>2. CASE Running(u)
    <2> DEFINE r == Step(u.b)
               size == u.b.skipped + Len(u.b.queue)
    <2>1. /\ Queued(u.b, u.t) /\ Past(u.b, u.t, r) /\ Future(u.b, u.t, r + 1) /\ AtStep(u)
          /\ ~u.t.receipt /\ (u.b.waiting => u.b.resolved)
      BY <1>2 DEF StorySound, Running, BatchSound
    <2>2. /\ u.b.at \in 1 .. Len(u.b.queue) /\ Len(u.b.queue) \in Nat /\ u.b.skipped \in Nat
          /\ DOMAIN u.t.ended = 1 .. size
      BY <2>1 DEF AtStep, Queued
    <2>3. r \in 1 .. size /\ size \in Nat
      BY <2>2, StepPlace DEF Step
    <2>4. CASE u.b.waiting
      <3>1. u.i.of = 0
        BY <2>1, <2>4 DEF StorySound
      <3> QED
        BY <2>4, <3>1, StoryKeeps DEF SameTale
    <2>5. CASE ~u.b.waiting
      <3>1. u.i.of = r /\ r # 0
        BY <1>2, <2>3, <2>5 DEF BatchSound
      <3>2. /\ DOMAIN x.t.ended = DOMAIN u.t.ended
            /\ x.t.ended[r] = OutcomeOf(x.i)
            /\ \A n \in 1 .. size : n # r => x.t.ended[n] = u.t.ended[n]
        BY <2>2, <2>3, <3>1 DEF Becomes
      <3> HIDE DEF r, size
      <3>3. Queued(x.b, x.t)
        BY <2>1, <3>2 DEF Queued
      <3>4. Past(x.b, x.t, r)
        <4>1. \A n \in 1 .. r - 1 : x.t.ended[n] = u.t.ended[n]
          BY <2>3, <3>2, Below
        <4> QED
          BY <2>1, <4>1, Zenon DEF Past
      <3>5. Future(x.b, x.t, r + 1)
        <4>1. \A n \in r + 1 .. size : x.t.ended[n] = u.t.ended[n]
          BY <2>3, <3>2, Below
        <4> QED
          BY <2>1, <4>1, ZenonT(30) DEF Future, size
      <3>6. AtStep(x)
        BY <2>1, <2>5, <3>2 DEF AtStep, r
      <3> QED
        BY <1>2, <2>1, <2>5, <3>3, <3>4, <3>5, <3>6 DEF StorySound, Running, Asking, r
    <2> QED
      BY <2>4, <2>5
  <1> QED
    BY <1>1, <1>2

\* A step that changes only the state of the job, and none that a queue waits for.
LEMMA JobHandled ==
  ASSUME NEW u, Ready(u), NEW x, Beside(u, x), x.b = u.b, x.e = u.e,
         u.t.mixed => x.t.mixed,
         JobSound(x), StorySound(x),
         PluginJob(x) /\ x.i.st # "Working" => x.i = u.i \/ Asks(u),
         ~x.t.mixed => \/ x.i = u.i
                       \/ /\ x.i.of = u.i.of /\ x.i.kind = u.i.kind /\ x.i.seen = u.i.seen
                          /\ u.i.st \in {"Working", "Paused"} /\ x.i.st # "Idle"
                       \/ /\ ~u.e.running
                          /\ Running(u) => u.b.waiting /\ u.b.resolved
  PROVE  Handled(u, x)
  <1>1. EssentialSound(x)
    BY DEF Ready, Sound, EssentialSound, Beside, Running
  <1>2. BatchSound(x) /\ StorageSound(x)
    BY DEF Ready, Sound, BatchSound, StorageSound, Beside, AtStorage, Running
  <1>3. Unseen(x)
    BY DEF Ready, Unseen, BatchUnseen, QueueUnseen, Running
  <1>4. Moves(u, x)
    <2>1. ~AtStorage(x) /\ (Asks(x) <=> Asks(u)) /\ (Undecided(x) <=> Undecided(u))
      BY DEF Ready, AtStorage, Beside, Asks, Undecided
    <2>2. Undecided(x) /\ Running(x) /\ ~x.t.mixed => x.b.waiting
      BY <2>1 DEF Ready, Decided, Running
    <2> QED
      BY <2>1, <2>2 DEF Moves, PluginJob
  <1> QED
    BY <1>1, <1>2, <1>3, <1>4 DEF Handled, Sound, Beside

LEMMA HiresSame ==
  ASSUME NEW u, Shape(u), NEW z, z # "remove", NEW x \in Hires(u, z)
  PROVE  Same(u, x)
  <1>1. x = u \/ x = [u EXCEPT !.work = @ \cup {z}]
    BY DEF Hires
  <1> QED
    BY <1>1 DEF Same, Shape, Fields, AtStorage

LEMMA ProgressHandled ==
  ASSUME NEW u, Ready(u), u.s.active, NEW x \in Progress(u)
  PROVE  Handled(u, x)
  <1>1. \/ x \in Report(u)
        \/ /\ Undecided(u)
           /\ \/ \E keep \in BOOLEAN : x \in ResolveRecovery(u, keep)
              \/ u.i.zip /\ ~(Running(u) /\ u.b.waiting) /\ x = Recovers(u)
        \/ u.s.outcome = "none" /\ x \in PausedOr(u) \cup Cancelled(u)
        \/ x = Close(u)
    BY DEF Progress, Undecided
  <1>2. CASE x \in Report(u)
    <2>1. Same(u, x)
      BY <1>2, HiresSame, SameSelf DEF Report, Ready, Sound
    <2> QED
      BY <2>1, SameHandled
  <1>3. ASSUME NEW keep \in BOOLEAN, x \in ResolveRecovery(u, keep)
        PROVE  Handled(u, x)
    <2>1. /\ Sound(x) /\ Unseen(x) /\ Beside(u, x) /\ x.e = u.e /\ x.t = u.t
          /\ x.b.phase = u.b.phase /\ x.b.waiting = u.b.waiting
          /\ x.i \in {u.i, NoJob}
      BY <1>3, ResolveSound DEF Ready
    <2>2. ~AtStorage(x) /\ (Asks(x) <=> Asks(u)) /\ (Undecided(x) <=> Undecided(u))
      BY <2>1 DEF Ready, AtStorage, Beside, Asks, Undecided
    <2>3. PluginJob(x) => x.i = u.i
      BY <2>1 DEF PluginJob, NoJob
    <2>4. Moves(u, x)
      BY <2>1, <2>2, <2>3 DEF Moves, PluginJob, Ready, Decided, Running
    <2> QED
      BY <2>1, <2>4 DEF Handled
  <1>4. CASE Undecided(u) /\ u.i.zip /\ ~(Running(u) /\ u.b.waiting) /\ x = Recovers(u)
    <2>1. Beside(u, x) /\ x.b = u.b /\ x.e = u.e /\ x.i = NoJob /\ x.t = u.t
      BY <1>4 DEF Recovers, Ready, Sound, Shape, Beside, Fields
    <2>2. JobSound(x) /\ ~PluginJob(x)
      BY <2>1 DEF JobSound, PluginJob, NoJob
    <2>3. ~u.t.mixed => ~u.e.running /\ ~Running(u)
      BY <1>4 DEF Ready, Decided, Sound, JobSound, EssentialSound, FileKinds
    <2>4. StorySound(x)
      BY <2>1, <2>3, StoryKeeps DEF Ready, Sound, SameTale, NoJob
    <2> QED
      BY <2>1, <2>2, <2>3, <2>4, JobHandled
  <1>5. CASE u.s.outcome = "none" /\ x \in PausedOr(u)
    <2>1. /\ Beside(u, x) /\ x.b = u.b /\ x.e = u.e /\ x.t = u.t
          /\ \/ x.i = u.i
             \/ /\ x.i.of = u.i.of /\ x.i.kind = u.i.kind /\ x.i.seen = u.i.seen
                /\ x.i.zip = u.i.zip /\ x.i.reboot = u.i.reboot
                /\ u.i.st \in {"Working", "Paused"} /\ x.i.st \in {"Working", "Paused"}
      BY <1>5 DEF PausedOr, Ready, Sound, Shape, Beside, Fields, NoJob
    <2>2. JobSound(x)
      BY <2>1 DEF Ready, Sound, JobSound
    <2>s. StorySound(x)
      BY <2>1, StoryKeeps DEF Ready, Sound, SameTale, OutcomeOf
    <2>3. Asks(u)
      BY <1>5 DEF Asks
    <2>4. /\ u.t.mixed => x.t.mixed
          /\ ~x.t.mixed => \/ x.i = u.i
                            \/ /\ x.i.of = u.i.of /\ x.i.kind = u.i.kind /\ x.i.seen = u.i.seen
                               /\ u.i.st \in {"Working", "Paused"} /\ x.i.st # "Idle"
      BY <2>1
    <2> QED
      BY <2>1, <2>2, <2>s, <2>3, <2>4, JobHandled
  <1>6. CASE u.s.outcome = "none" /\ x \in Cancelled(u)
    <2>1. CASE x = u
      BY <2>1, SameSelf, SameHandled DEF Ready, Sound
    <2>2. CASE /\ u.i.st \in {"Working", "Paused"}
               /\ x = Noted([u EXCEPT !.i.st = "Cancelled"], u.i.of, "cancelled")
      <3> DEFINE v == [u EXCEPT !.i.st = "Cancelled"]
                 of == u.i.of
      <3>1. /\ Beside(u, v) /\ v.b = u.b /\ v.e = u.e /\ v.t = u.t
            /\ v.i.of = u.i.of /\ v.i.kind = u.i.kind /\ v.i.seen = u.i.seen
            /\ v.i.zip = u.i.zip /\ v.i.reboot = u.i.reboot /\ v.i.st = "Cancelled"
        BY DEF Ready, Sound, Shape, Beside, Fields, NoJob
      <3>2. x = Noted(v, of, "cancelled")
        BY <2>2
      <3> HIDE DEF v
      <3>3. /\ Beside(v, x) /\ x.b = v.b /\ x.e = v.e /\ x.i = v.i /\ x.t.mixed = v.t.mixed
            /\ x.t.app = v.t.app /\ x.t.kinds = v.t.kinds /\ x.t.receipt = v.t.receipt
            /\ of = 0 => x.t.ended = v.t.ended
            /\ of # 0 => Becomes(v.t.ended, x.t.ended, of, "cancelled")
        BY <3>1, <3>2, NotedFacts DEF Beside
      <3>4. Beside(u, x) /\ x.b = u.b /\ x.e = u.e /\ x.t.mixed = u.t.mixed
        BY <3>1, <3>3 DEF Beside
      <3>5. JobSound(x) /\ ~PluginJob(x)
        BY <2>2, <3>1, <3>3 DEF Ready, Sound, JobSound, PluginJob
      <3>6. /\ x.i.of = u.i.of /\ x.i.kind = u.i.kind /\ x.i.seen = u.i.seen
            /\ u.i.st \in {"Working", "Paused"} /\ x.i.st # "Idle"
        BY <2>2, <3>1, <3>3
      <3>7. StorySound(x)
        <4>1. OutcomeOf(x.i) = "cancelled"
          BY <3>1, <3>3 DEF OutcomeOf
        <4> QED
          BY <2>2, <3>1, <3>3, <4>1, EndsStory DEF Ready, Sound
      <3> QED
        BY <3>4, <3>5, <3>6, <3>7, JobHandled
    <2> QED
      BY <1>6, <2>1, <2>2 DEF Cancelled
  <1>7. CASE x = Close(u)
    <2> DEFINE mixed == u.t.mixed \/ (u.i.st \in Terminal /\ ~u.i.seen)
               v == [u EXCEPT !.t.mixed = mixed]
    <2>1. x = Ack(v)
      BY <1>7 DEF Close
    <2>2. mixed <=> (u.t.mixed \/ (u.i.st \in Terminal /\ ~u.i.seen))
      OBVIOUS
    <2> HIDE DEF mixed
    <2>3. /\ Beside(u, v) /\ v.b = u.b /\ v.e = u.e /\ v.i = u.i /\ v.t.mixed = mixed
          /\ SameTale(u.t, v.t)
      BY DEF Ready, Sound, Shape, Beside, Fields, NoTruth, SameTale
    <2> HIDE DEF v
    <2>4. /\ Beside(v, x) /\ x.b = v.b /\ x.e = v.e /\ x.t = v.t
          /\ x.i = v.i \/ (x.i = NoJob /\ v.i.st \in Terminal /\ ~v.i.zip)
      BY <2>1, <2>3, AckFacts DEF Beside
    <2>5. Beside(u, x) /\ x.b = u.b /\ x.e = u.e /\ (u.t.mixed => x.t.mixed)
      BY <2>2, <2>3, <2>4 DEF Beside
    <2>6. JobSound(x) /\ (PluginJob(x) => x.i = u.i)
      BY <2>3, <2>4 DEF Ready, Sound, JobSound, PluginJob, NoJob
    <2>7. ~x.t.mixed /\ x.i # u.i => /\ ~u.e.running
                                     /\ Running(u) => u.b.waiting /\ u.b.resolved
      BY <2>2, <2>3, <2>4
      DEF Ready, Unseen, BatchUnseen, QueueUnseen, Sound, BatchSound
    <2>8. StorySound(x)
      BY <2>2, <2>3, <2>4, <2>7, StoryKeeps DEF Ready, Sound, NoJob
    <2> QED
      BY <2>5, <2>6, <2>7, <2>8, JobHandled
  <1> QED
    BY <1>1, <1>2, <1>3, <1>4, <1>5, <1>6, <1>7

\* The wizard goes to another of its questions, closes or opens.
LEMMA PhaseHandled ==
  ASSUME NEW u, Ready(u), NEW x, Beside(u, x), x.e = u.e, ~Running(x),
         x.b.phase = "Hidden" => ~Running(u),
         x.i.st = u.i.st, x.i.kind = u.i.kind, x.i.zip = u.i.zip, x.i.reboot = u.i.reboot,
         x.i.seen = u.i.seen, x.i.of \in {u.i.of, 0},
         u.t.mixed => x.t.mixed, StorySound(x)
  PROVE  Handled(u, x)
  <1>1. JobSound(x)
    BY DEF Ready, Sound, JobSound
  <1>2. EssentialSound(x)
    BY DEF Ready, Sound, EssentialSound, Beside
  <1>3. BatchSound(x) /\ StorageSound(x)
    BY DEF Ready, Sound, BatchSound, StorageSound, Beside, AtStorage
  <1>4. Unseen(x)
    BY DEF Ready, Unseen, BatchUnseen, QueueUnseen
  <1>5. Moves(u, x)
    <2>1. ~AtStorage(x) /\ (Asks(x) <=> Asks(u)) /\ (PluginJob(x) <=> PluginJob(u))
      BY DEF Ready, AtStorage, Beside, Asks, PluginJob
    <2> QED
      BY <2>1 DEF Moves, Running
  <1> QED
    BY <1>1, <1>2, <1>3, <1>4, <1>5 DEF Handled, Sound, Beside

LEMMA OpenBatchFacts ==
  ASSUME NEW u, Shape(u), NEW item
  PROVE  LET x == OpenBatch(u, item)
         IN /\ Beside(u, x) /\ x.e = u.e /\ x.t.mixed = u.t.mixed /\ x.reboot = u.reboot
            /\ x.t.owed = u.t.owed /\ (x.t.dropped <=> u.t.dropped \/ u.b.plugin)
            /\ ~x.t.receipt
            /\ x.b.phase = "Confirm" /\ x.b.results = <<>> /\ ~x.b.plugin
            /\ x.b.chosen = <<"open", "open", "open">> /\ x.b.approved = 0
            /\ x.i.st = u.i.st /\ x.i.kind = u.i.kind /\ x.i.zip = u.i.zip
            /\ x.i.reboot = u.i.reboot /\ x.i.seen = u.i.seen /\ x.i.of = 0
  <1> DEFINE x == OpenBatch(u, item)
             b == [NoBatch EXCEPT !.phase = "Confirm", !.item = item]
             app == u.view[item]
             dropped == u.t.dropped \/ u.b.plugin
  <1>1. x = [u EXCEPT !.i.of = 0, !.b = b, !.t.app = app, !.t.ended = <<>>, !.t.kinds = <<>>,
                      !.t.receipt = FALSE, !.t.dropped = dropped]
    BY DEF OpenBatch
  <1>2. b.phase = "Confirm" /\ DOMAIN b = DOMAIN NoBatch /\ b.results = <<>> /\ ~b.plugin
        /\ b.chosen = <<"open", "open", "open">> /\ b.approved = 0
    BY DEF NoBatch
  <1>3. dropped <=> u.t.dropped \/ u.b.plugin
    OBVIOUS
  <1> HIDE DEF b, app, dropped, x
  <1>4. /\ Beside(u, x) /\ x.e = u.e /\ x.b = b /\ x.t.mixed = u.t.mixed
        /\ x.reboot = u.reboot /\ x.t.owed = u.t.owed /\ x.t.dropped = dropped
        /\ ~x.t.receipt
        /\ x.i.st = u.i.st /\ x.i.kind = u.i.kind /\ x.i.zip = u.i.zip /\ x.i.reboot = u.i.reboot
        /\ x.i.seen = u.i.seen /\ x.i.of = 0
    BY <1>1, <1>2 DEF Shape, Beside, Fields, NoJob, NoTruth
  <1> QED
    BY <1>2, <1>3, <1>4 DEF x

LEMMA OpenBatchHandled ==
  ASSUME NEW u, Ready(u), NEW item
  PROVE  Handled(u, OpenBatch(u, item))
  <1> DEFINE x == OpenBatch(u, item)
  <1>1. /\ Beside(u, x) /\ x.e = u.e /\ x.t.mixed = u.t.mixed
        /\ ~x.t.receipt
        /\ x.b.phase = "Confirm" /\ x.b.results = <<>>
        /\ x.b.chosen = <<"open", "open", "open">> /\ x.b.approved = 0
        /\ x.i.st = u.i.st /\ x.i.kind = u.i.kind /\ x.i.zip = u.i.zip /\ x.i.reboot = u.i.reboot
        /\ x.i.seen = u.i.seen /\ x.i.of = 0
    BY OpenBatchFacts DEF Ready, Sound
  <1> HIDE DEF x
  <1>2. Asked(x)
    <2>1. DOMAIN x.b.chosen = 1 .. 3 /\ \A k \in 1 .. 3 : x.b.chosen[k] = "open"
      BY <1>1
    <2>2. \A k \in 1 .. 3 : PickPhase[k] # "Confirm"
      BY DEF PickPhase
    <2>3. x.b.results \in Seq({"Skipped"}) /\ x.b.approved \in Nat
      <3>1. <<>> \in Seq({"Skipped"}) /\ 0 \in Nat
        OBVIOUS
      <3> QED
        BY <1>1, <3>1
    <2> QED
      BY <1>1, <2>1, <2>2, <2>3 DEF Asked
  <1>3. StorySound(x)
    BY <1>1, <1>2 DEF StorySound, Running, Asking
  <1>4. Handled(u, x)
    BY <1>1, <1>3, PhaseHandled DEF Running
  <1> QED
    BY <1>4 DEF x

LEMMA CloseWizardHandled ==
  ASSUME NEW u, Ready(u)
  PROVE  Handled(u, CloseWizard(u))
  <1>1. CASE Running(u)
    <2>1. CloseWizard(u) = u
      BY <1>1 DEF CloseWizard
    <2> QED
      BY <2>1, SameSelf, SameHandled DEF Ready, Sound
  <1>2. CASE ~Running(u)
    <2> DEFINE x == CloseWizard(u)
    <2>1. x = [u EXCEPT !.b = NoBatch]
      BY <1>2 DEF CloseWizard
    <2>s. StorySound(x)
      BY CloseStory DEF Ready, Sound
    <2> HIDE DEF x
    <2>2. Beside(u, x) /\ x.e = u.e /\ x.i = u.i /\ x.t = u.t /\ x.b = NoBatch
      BY <2>1 DEF Ready, Sound, Shape, Beside, Fields, NoBatch
    <2>3. NoBatch.phase = "Hidden"
      BY DEF NoBatch
    <2>4. Handled(u, x)
      BY <1>2, <2>s, <2>2, <2>3, PhaseHandled DEF Running
    <2> QED
      BY <2>4 DEF x
  <1> QED
    BY <1>1, <1>2

LEMMA StartQueueHandled ==
  ASSUME NEW u, Ready(u), u.b.phase \in Asking, NEW x \in StartQueue(u)
  PROVE  Handled(u, x)
  <1> DEFINE b == u.b
             a == App(u)
             file(k) == IF b.chosen[k] = "one" /\ Options[a][Kinds[k]] > 0 THEN <<Kinds[k]>> ELSE <<>>
             queue == file(1) \o file(2) \o file(3)
                 \o [n \in 1 .. IF b.approved < Plugins[a] THEN b.approved ELSE Plugins[a]
                      |-> "plugin"]
             results == b.results \o [n \in 1 .. Len(queue) |-> "Pending"]
             has == \E k \in {2, 3} : b.chosen[k] = "one"
             skipped == Len(b.results)
             c == [b EXCEPT
                   !.app = a, !.queue = queue, !.at = 1, !.results = results,
                   !.skipped = skipped, !.last = "unset", !.plugin = FALSE,
                   !.hasFiles = has, !.filesOk = has, !.offers = 0, !.asked = 0, !.approved = 0,
                   !.waiting = FALSE, !.resolved = FALSE, !.tried = FALSE, !.autoFailed = FALSE]
             mixed == u.t.mixed \/ u.i.st # "Idle"
             app == IF u.t.app = a THEN a ELSE NoApp
             ended == [r \in DOMAIN results |-> "none"]
             kinds == [r \in 1 .. Len(b.results) |-> "plugin"] \o queue
             made == [u EXCEPT !.b = c, !.t.mixed = mixed, !.t.app = app, !.t.ended = ended,
                               !.t.kinds = kinds]
  <1>s. StorySound(x)
    BY StartQueueStory DEF Ready, Sound
  <1>r. ~Running(u)
    BY DEF Running, Asking
  <1>1. \/ x = CloseWizard(u)
        \/ x = [made EXCEPT !.b.phase = "SpaceWarning"]
        \/ x \in StartNextStep([made EXCEPT !.b.phase = "Running"])
    BY DEF StartQueue
  <1>2. DOMAIN c = DOMAIN NoBatch /\ c.phase = u.b.phase /\ ~c.waiting
    <2> HIDE DEF a, queue, results, has, skipped
    <2> QED
      BY DEF Ready, Sound, Shape, NoBatch
  <1>3. mixed <=> (u.t.mixed \/ u.i.st # "Idle")
    OBVIOUS
  <1> HIDE DEF c, mixed, app, ended, kinds
  <1>4. /\ Beside(u, made) /\ made.b = c /\ made.e = u.e /\ made.i = u.i /\ made.t.mixed = mixed
    BY <1>2 DEF Ready, Sound, Shape, Beside, Fields, NoTruth
  <1> HIDE DEF made
  <1>5. CASE x = [made EXCEPT !.b.phase = "SpaceWarning"]
    <2>1. /\ Beside(made, x) /\ x.e = made.e /\ x.i = made.i /\ x.t = made.t
          /\ x.b.phase = "SpaceWarning"
      BY <1>4, <1>5 DEF Shape, Beside, Fields, NoBatch
    <2>2. Beside(u, x)
      BY <1>4, <2>1 DEF Beside
    <2>3. u.t.mixed => x.t.mixed
      BY <1>3, <1>4, <2>1
    <2> QED
      BY <1>s, <1>r, <1>4, <2>1, <2>2, <2>3, PhaseHandled DEF Running
  <1>6. CASE x \in StartNextStep([made EXCEPT !.b.phase = "Running"])
    <2> DEFINE v == [made EXCEPT !.b.phase = "Running"]
    <2>1. /\ Beside(made, v) /\ v.e = made.e /\ v.i = made.i /\ v.t = made.t
          /\ Running(v) /\ ~v.b.waiting
      BY <1>2, <1>4 DEF Shape, Beside, Fields, NoBatch, Running
    <2>2. x \in StartNextStep(v)
      BY <1>6
    <2> HIDE DEF v
    <2>3. /\ Beside(v, x) /\ x.e = v.e /\ x.t.mixed = v.t.mixed
          /\ \/ x.b.phase = "Summary" /\ Released(v, x)
             \/ AtWork(x) /\ Takes(v)
      BY <2>1, <2>2, NextStepFacts DEF Beside
    <2>4. Beside(u, x) /\ x.e = u.e /\ x.t.mixed = mixed /\ v.i = u.i
      BY <1>4, <2>1, <2>3 DEF Beside
    <2>5. ~mixed => ~u.t.mixed /\ u.i.st = "Idle" /\ ~u.e.running
      BY <1>3 DEF Ready, Sound, EssentialSound
    <2>6. JobSound(x)
      BY <2>3, <2>4 DEF AtWork, Released, Ready, Sound, JobSound, NoJob
    <2>7. EssentialSound(x)
      BY <2>4, <2>5 DEF Ready, Sound, EssentialSound, Beside
    <2>8. BatchSound(x) /\ StorageSound(x)
      BY <2>3, <2>4 DEF Ready, Sound, BatchSound, StorageSound, AtWork, Beside, AtStorage, Running
    <2>9. Unseen(x)
      BY <2>3, <2>4, <2>5 DEF Unseen, BatchUnseen, QueueUnseen, AtWork, Running
    <2>10. Moves(u, x)
      <3>1. x.b.phase # "Hidden" /\ ~AtStorage(x) /\ (Undecided(x) <=> Undecided(u))
        BY <2>3, <2>4 DEF AtWork, Ready, AtStorage, Beside, Undecided
      <3> QED
        BY <2>4, <2>5, <3>1 DEF Moves
    <2> QED
      BY <1>s, <2>4, <2>6, <2>7, <2>8, <2>9, <2>10 DEF Handled, Sound, Beside
  <1> QED
    BY <1>1, <1>5, <1>6, CloseWizardHandled

\* What the wizard asks next.
LEMMA AskingStory ==
  ASSUME NEW u, StorySound(u), u.b.phase \in Asking, NEW x, x.b.phase \in Asking,
         u.t.mixed => x.t.mixed, Asked(u) => Asked(x), x.t.receipt = u.t.receipt,
         x.i.of = u.i.of
  PROVE  StorySound(x)
  BY DEF StorySound, Asking, Running

LEMMA AdvancePickHandled ==
  ASSUME NEW u, Ready(u), u.b.phase \in Asking, NEW x \in AdvancePick(u)
  PROVE  Handled(u, x)
  <1> DEFINE b == u.b
             a == App(u)
             asks == {k \in 1 .. 3 : b.chosen[k] = "open" /\ Options[a][Kinds[k]] > 1}
             ask == CHOOSE k \in asks : \A l \in asks : k <= l
             settled(upto) == [k \in 1 .. 3 |->
                 IF b.chosen[k] # "open" \/ k >= upto THEN b.chosen[k]
                 ELSE IF Options[a][Kinds[k]] = 0 THEN "none" ELSE "one"]
             some == settled(ask)
             all == settled(4)
             app == IF u.t.app = a THEN a ELSE NoApp
             same == [u EXCEPT !.t.app = app]
             picked == [same EXCEPT !.b.chosen = all]
             phase == PickPhase[ask]
             offers == Plugins[a]
  <1>1. \/ x = CloseWizard(u)
        \/ /\ InView(u) /\ asks # {}
           /\ x = [same EXCEPT !.b.chosen = some, !.b.phase = phase]
        \/ /\ InView(u)
           /\ \/ x = [picked EXCEPT !.b.phase = "PickPlugin", !.b.offers = offers,
                                   !.b.asked = 0, !.b.approved = 0]
              \/ x \in StartQueue(picked)
    <2> HIDE DEF settled, asks
    <2> QED
      BY DEF AdvancePick, settled, asks
  <1>2. asks # {} =>
          /\ phase \in {"PickDownload", "PickGameFiles", "PickDataFiles"}
          /\ \A k \in 1 .. 3 : phase = PickPhase[k] => k \in asks
    <2> SUFFICES ASSUME asks # {}
                 PROVE  ask \in asks /\ ask \in 1 .. 3
      <3>1. \A n \in 1 .. 3 :
              /\ PickPhase[n] \in {"PickDownload", "PickGameFiles", "PickDataFiles"}
              /\ \A k \in 1 .. 3 : PickPhase[n] = PickPhase[k] => n = k
        BY DEF PickPhase
      <3> HIDE DEF asks, ask
      <3> QED
        BY <3>1
    <2>1. asks \subseteq 1 .. 3
      OBVIOUS
    <2> HIDE DEF asks
    <2>2. \E k \in asks : \A l \in asks : k <= l
      <3>1. 1 \in asks \/ 2 \in asks \/ 3 \in asks
        <4>1. PICK k : k \in asks
          OBVIOUS
        <4>2. k = 1 \/ k = 2 \/ k = 3
          BY <2>1, <4>1
        <4> QED
          BY <4>1, <4>2
      <3> QED
        BY <2>1, <3>1
    <2> QED
      BY <2>1, <2>2
  <1>c. ASSUME InView(u), Asked(u), app # NoApp, NEW k \in 1 .. 3,
               \/ some[k] = "one" \/ all[k] = "one"
               \/ u.b.phase = PickPhase[k] \/ (asks # {} /\ phase = PickPhase[k])
        PROVE  Options[app][Kinds[k]] > 0
    <2>1. app = a /\ u.t.app = a /\ a \in Apps
      <3>0. Shape(u)
        BY DEF Ready, Sound
      <3>n. InView(u)
        BY <1>c
      <3>1. a \in Apps
        BY <3>0, <3>n DEF InView, App, Shape
      <3> HIDE DEF a
      <3> QED
        BY <1>c, <3>1
    <2>2. Options[a][Kinds[k]] \in Nat
      <3>1. Kinds[k] \in ToSet(Kinds)
        BY DEF Kinds, ToSet
      <3> QED
        BY <2>1, <3>1, InstallAllAssumption
    <2> HIDE DEF a, app, phase
    <2>3. CASE u.b.chosen[k] = "one" \/ u.b.phase = PickPhase[k]
      BY <1>c, <2>1, <2>3 DEF Asked
    <2>4. CASE k \in asks
      BY <2>1, <2>2, <2>4
    <2>5. CASE (some[k] = "one" \/ all[k] = "one") /\ u.b.chosen[k] # "one"
      BY <2>1, <2>2, <2>5
    <2> QED
      BY <1>c, <1>2, <2>3, <2>4, <2>5
  <1>d. DOMAIN some = 1 .. 3 /\ DOMAIN all = 1 .. 3
    OBVIOUS
  <1>r. ~Running(u)
    BY DEF Running, Asking
  <1> HIDE DEF asks, settled, some, all, phase, offers, app
  <1>e. /\ Shape(picked) /\ picked.e = u.e /\ picked.i = u.i /\ picked.s = u.s
        /\ picked.reboot = u.reboot /\ picked.open = u.open /\ picked.work = u.work
        /\ picked.t.mixed = u.t.mixed /\ picked.t.app = app /\ picked.t.receipt = u.t.receipt
        /\ SameDebt(u.t, picked.t)
        /\ picked.b.chosen = all /\ picked.b.results = u.b.results
        /\ picked.b.approved = u.b.approved /\ Alike(u.b, picked.b)
    BY DEF Ready, Sound, Shape, Fields, NoBatch, NoTruth, Step, Alike, SameDebt
  <1> HIDE DEF picked
  <1>3. InView(u) => Same(u, picked)
    <2>1. InView(u) /\ Asked(u) => Asked(picked)
      BY <1>c, <1>d, <1>e DEF Asked, Alike
    <2>2. InView(u) /\ StorySound(u) => StorySound(picked)
      BY <1>e, <2>1, AskingStory DEF Alike
    <2> QED
      BY <1>e, <2>2 DEF Same, SameDebt, AtStorage
  <1>4. InView(u) => Ready(picked) /\ picked.b.phase \in Asking
    BY <1>3, <1>e, SameHandled DEF Alike
  <1>5. CASE /\ InView(u) /\ asks # {}
             /\ x = [same EXCEPT !.b.chosen = some, !.b.phase = phase]
    <2>1. /\ Beside(u, x) /\ x.e = u.e /\ x.i = u.i /\ x.b.phase = phase
          /\ x.t.mixed = u.t.mixed /\ x.t.app = app /\ x.t.receipt = u.t.receipt
          /\ x.b.chosen = some /\ x.b.results = u.b.results /\ x.b.approved = u.b.approved
      BY <1>2, <1>5 DEF Ready, Sound, Shape, Beside, Fields, NoBatch, NoTruth
    <2>2. Asked(u) => Asked(x)
      BY <1>c, <1>d, <1>5, <2>1 DEF Asked
    <2>3. StorySound(x)
      <3>1. x.b.phase \in Asking /\ StorySound(u)
        BY <1>2, <1>5, <2>1 DEF Ready, Sound, Asking
      <3> QED
        BY <2>1, <2>2, <3>1, AskingStory
    <2> QED
      BY <1>2, <1>r, <1>5, <2>1, <2>3, PhaseHandled DEF Running
  <1>6. CASE InView(u) /\ x = [picked EXCEPT !.b.phase = "PickPlugin", !.b.offers = offers,
                               !.b.asked = 0, !.b.approved = 0]
    <2>1. /\ Beside(picked, x) /\ x.e = picked.e /\ x.i = picked.i /\ x.t = picked.t
          /\ x.b.phase = "PickPlugin" /\ x.b.approved = 0
          /\ x.b.chosen = picked.b.chosen /\ x.b.results = picked.b.results
      BY <1>4, <1>6 DEF Ready, Sound, Shape, Beside, Fields, NoBatch
    <2>2. Asked(picked) => Asked(x)
      <3>1. \A k \in 1 .. 3 : PickPhase[k] # "PickPlugin"
        BY DEF PickPhase
      <3> QED
        BY <2>1, <3>1 DEF Asked
    <2>3. StorySound(x)
      <3>1. x.b.phase \in Asking /\ picked.b.phase \in Asking /\ StorySound(picked)
        BY <1>4, <1>6, <2>1 DEF Ready, Sound, Asking
      <3> QED
        BY <2>1, <2>2, <3>1, AskingStory
    <2>4. Handled(picked, x)
      BY <1>4, <1>6, <2>1, <2>3, PhaseHandled DEF Running, Asking
    <2> QED
      BY <1>3, <1>6, <2>4, AfterSame
  <1>7. CASE InView(u) /\ x \in StartQueue(picked)
    BY <1>3, <1>4, <1>7, StartQueueHandled, AfterSame
  <1> QED
    BY <1>1, <1>5, <1>6, <1>7, CloseWizardHandled

LEMMA PickHandled ==
  ASSUME NEW u, Ready(u), u.b.phase \in ToSet(PickPhase), NEW x \in Pick(u)
  PROVE  Handled(u, x)
  <1> DEFINE k == CHOOSE n \in 1 .. 3 : PickPhase[n] = u.b.phase
             v == [u EXCEPT !.b.chosen[k] = "one"]
  <1>1. x \in AdvancePick(v)
    BY DEF Pick
  <1>p. k \in 1 .. 3 /\ PickPhase[k] = u.b.phase /\ u.b.phase \in Asking
    <2>1. \E n \in 1 .. 3 : PickPhase[n] = u.b.phase
      BY DEF ToSet, PickPhase
    <2>2. PickPhase[1] \in Asking /\ PickPhase[2] \in Asking /\ PickPhase[3] \in Asking
      BY DEF PickPhase, Asking
    <2> QED
      BY <2>1, <2>2
  <1> HIDE DEF k
  <1> DEFINE chosen == [u.b.chosen EXCEPT ![k] = "one"]
  <1>v. v = [u EXCEPT !.b.chosen = chosen]
    BY DEF Ready, Sound, Shape, Fields, NoBatch
  <1> HIDE DEF v
  <1>e. /\ Shape(v) /\ v.e = u.e /\ v.i = u.i /\ v.s = u.s /\ v.t = u.t
        /\ v.reboot = u.reboot /\ v.open = u.open /\ v.work = u.work
        /\ v.b.chosen = chosen /\ v.b.results = u.b.results
        /\ v.b.approved = u.b.approved /\ Alike(u.b, v.b)
    <2> HIDE DEF chosen
    <2> QED
      BY <1>v DEF Ready, Sound, Shape, Fields, NoBatch, Step, Alike
  <1>2. Same(u, v)
    <2>1. Asked(u) => Asked(v)
      BY <1>p, <1>e DEF Asked, Alike
    <2>2. StorySound(u) => StorySound(v)
      BY <1>p, <1>e, <2>1, AskingStory DEF Alike
    <2> QED
      BY <1>e, <2>2 DEF Same, SameDebt, AtStorage
  <1>3. Ready(v) /\ v.b.phase \in Asking
    BY <1>p, <1>e, <1>2, SameHandled DEF Alike
  <1> QED
    BY <1>1, <1>2, <1>3, AdvancePickHandled, AfterSame

LEMMA AdvancePluginPickHandled ==
  ASSUME NEW u, Ready(u), u.b.phase = "PickPlugin", NEW install, NEW x \in AdvancePluginPick(u, install)
  PROVE  Handled(u, x)
  <1> DEFINE results == IF install THEN u.b.results ELSE Append(u.b.results, "Skipped")
             approved == IF install THEN u.b.approved + 1 ELSE u.b.approved
             v == [u EXCEPT !.b.asked = @ + 1, !.b.approved = approved, !.b.results = results]
  <1>1. x = CloseWizard(u) \/ x = v \/ x \in StartQueue(v)
    BY DEF AdvancePluginPick
  <1>a. Asked(u) => /\ results \in Seq({"Skipped"}) /\ approved \in Nat
    BY DEF Asked
  <1> HIDE DEF results, approved
  <1>2. Shape(v) /\ v.e = u.e /\ v.i = u.i /\ v.s = u.s /\ v.t = u.t /\ v.reboot = u.reboot
        /\ v.open = u.open /\ v.work = u.work
        /\ v.b.phase = u.b.phase /\ v.b.waiting = u.b.waiting /\ v.b.resolved = u.b.resolved
        /\ v.b.last = u.b.last /\ Step(v.b) = Step(u.b) /\ v.b.plugin = u.b.plugin
        /\ v.b.results = results /\ v.b.approved = approved /\ v.b.chosen = u.b.chosen
    BY DEF Ready, Sound, Shape, Fields, NoBatch, Step
  <1> HIDE DEF v
  <1>3. Same(u, v)
    <2>1. Asked(u) => Asked(v)
      BY <1>a, <1>2 DEF Asked
    <2>2. StorySound(u) => StorySound(v)
      BY <1>2, <2>1, AskingStory DEF Asking
    <2> QED
      BY <1>2, <2>2 DEF Same, SameDebt, Alike, AtStorage
  <1>4. Ready(v) /\ v.b.phase \in Asking /\ Handled(u, v)
    BY <1>2, <1>3, SameHandled DEF Asking
  <1> QED
    BY <1>1, <1>3, <1>4, StartQueueHandled, CloseWizardHandled, AfterSame

LEMMA SummaryZipHandled ==
  ASSUME NEW u, Ready(u), u.b.phase = "Summary", NEW keep, NEW x \in SummaryZip(u, keep)
  PROVE  Handled(u, x)
  <1>1. \/ \E v : x = [u EXCEPT !.b.sure = v]
        \/ \E r \in DOMAIN u.b.results :
              /\ u.b.results[r] = "Kept"
              /\ x = [u EXCEPT !.b.sure = FALSE, !.b.results[r] = "Deleted"]
    BY DEF SummaryZip
  <1>2. ASSUME NEW v, x = [u EXCEPT !.b.sure = v]
        PROVE  Same(u, x)
    <2>1. /\ Shape(x) /\ x.e = u.e /\ x.i = u.i /\ x.s = u.s /\ x.reboot = u.reboot /\ x.t = u.t
          /\ x.open = u.open /\ x.work = u.work /\ Alike(u.b, x.b) /\ Untold(u.b, x.b)
      BY <1>2 DEF Ready, Sound, Shape, Fields, NoBatch, Step, Alike, Untold
    <2> QED
      BY <2>1, UntoldStory DEF Same, SameDebt, AtStorage
  <1>3. ASSUME NEW r \in DOMAIN u.b.results, u.b.results[r] = "Kept",
               x = [u EXCEPT !.b.sure = FALSE, !.b.results[r] = "Deleted"]
        PROVE  Same(u, x)
    <2> DEFINE results == [u.b.results EXCEPT ![r] = "Deleted"]
    <2>1. x = [u EXCEPT !.b.sure = FALSE, !.b.results = results]
      BY <1>3 DEF Ready, Sound, Shape, Fields, NoBatch
    <2>2. /\ DOMAIN results = DOMAIN u.b.results /\ results[r] = "Deleted"
          /\ \A n \in DOMAIN u.b.results : n # r => results[n] = u.b.results[n]
      OBVIOUS
    <2> HIDE DEF results
    <2>3. /\ Shape(x) /\ x.e = u.e /\ x.i = u.i /\ x.s = u.s /\ x.reboot = u.reboot /\ x.t = u.t
          /\ x.open = u.open /\ x.work = u.work /\ Alike(u.b, x.b)
          /\ x.b.phase = "Summary" /\ x.b.results = results
      BY <2>1 DEF Ready, Sound, Shape, Fields, NoBatch, Step, Alike
    <2>4. ASSUME \A n \in DOMAIN u.b.results : Agrees(u.b.results[n], u.t.ended[n])
          PROVE  \A n \in DOMAIN results : Agrees(results[n], u.t.ended[n])
      BY <1>3, <2>2, <2>4 DEF Agrees
    <2>5. StorySound(u) => StorySound(x)
      BY <2>3, <2>4 DEF StorySound, Running, Asking, Honest
    <2> QED
      BY <2>3, <2>5 DEF Same, SameDebt, AtStorage
  <1> QED
    BY <1>1, <1>2, <1>3, SameHandled

LEMMA OffSame ==
  ASSUME NEW u, Shape(u)
  PROVE  Same(u, Off(u))
  BY DEF Off, Same, Shape, Fields, AtStorage

LEMMA WizardHandled ==
  ASSUME NEW u, Ready(u), Wizard(u), NEW x \in PressWizard(u) \cup TouchWizard(u)
  PROVE  Handled(u, x)
  <1>1. ~Running(u) /\ Shape(u)
    BY DEF Wizard, Running, Ready, Sound
  <1>2. /\ u.b.phase \in {"Confirm", "PickDownload", "PickGameFiles", "PickDataFiles",
                         "PickPlugin", "SpaceWarning", "Summary"}
        /\ ToSet(PickPhase) = {"PickDownload", "PickGameFiles", "PickDataFiles"}
    BY <1>1 DEF Wizard, Shape, PickPhase, ToSet
  <1>3. \/ x = CloseWizard(u)
        \/ u.b.phase = "Confirm" /\ x \in AdvancePick(u)
        \/ u.b.phase \in ToSet(PickPhase) /\ x \in Pick(u)
        \/ \E yes \in BOOLEAN :
              \/ u.b.phase = "PickPlugin" /\ x \in AdvancePluginPick(u, yes)
              \/ u.b.phase = "Summary" /\ x \in SummaryZip(u, yes)
        \/ x = Off(u)
        \/ x \in Report(u)
    BY <1>2 DEF PressWizard, TouchWizard, InstallWizard
  <1>4. CASE x \in Report(u)
    <2>1. Same(u, x)
      BY <1>1, <1>4, HiresSame, SameSelf DEF Report
    <2> QED
      BY <2>1, SameHandled
  <1>5. CASE x = Off(u)
    BY <1>1, <1>5, OffSame, SameHandled
  <1> QED
    BY <1>1, <1>3, <1>4, <1>5, CloseWizardHandled, AdvancePickHandled, PickHandled,
       AdvancePluginPickHandled, SummaryZipHandled DEF Asking

LEMMA EssentialPromptHandled ==
  ASSUME NEW u, Ready(u), "essential" \in u.open, NEW x \in EssentialPrompt(u)
  PROVE  Handled(u, x)
  <1> DEFINE c == Closes(u, "essential")
  <1>1. Same(u, c)
    BY DEF Ready, Sound, Shape, Fields, AtStorage, Closes, Same
  <1>2. "essential" \notin c.open /\ c.e = u.e
    BY DEF Closes, Ready, Sound, Shape, Fields
  <1>3. x = c \/ x \in InstallEssential(c)
    BY DEF EssentialPrompt
  <1> HIDE DEF c
  <1>4. Ready(c) /\ Handled(u, c)
    BY <1>1, SameHandled
  <1>5. CASE x \in InstallEssential(c)
    <2> DEFINE mixed == c.t.mixed \/ c.i.st # "Idle"
               v == [c EXCEPT !.e.running = TRUE, !.e.begun = FALSE, !.t.mixed = mixed]
    <2>1. x \in KickEssential(v)
      BY <1>5 DEF InstallEssential
    <2>2. mixed <=> (c.t.mixed \/ c.i.st # "Idle")
      OBVIOUS
    <2> HIDE DEF mixed
    <2>3. /\ Beside(c, v) /\ v.b = c.b /\ v.i = c.i /\ v.t.mixed = mixed
          /\ SameTale(c.t, v.t) /\ v.e.running /\ v.e.left = c.e.left
      BY <1>4 DEF Ready, Sound, Shape, Beside, Fields, NoQueue, NoTruth, SameTale
    <2> HIDE DEF v
    <2> Shape(v)
      BY <2>3 DEF Beside
    <2>4. /\ Beside(v, x) /\ x.b = v.b /\ x.t.mixed = v.t.mixed /\ SameTale(v.t, x.t)
          /\ \/ /\ ~x.e.running /\ x.e.left = 0
                /\ x.i = v.i \/ (Takes(v) /\ FailedAtOnce(x.i))
             \/ /\ v.e.left # 0 /\ Takes(v) /\ PluginStarted(x.i)
                /\ x.e.running = v.e.running /\ x.e.left = v.e.left /\ x.e.last = "none"
      BY <2>1, KickFacts
    <2>5. Beside(c, x) /\ x.b = c.b /\ x.t.mixed = mixed
      BY <2>3, <2>4 DEF Beside
    <2>6. ~mixed => ~c.t.mixed /\ c.i.st = "Idle" /\ (Running(c) => c.b.waiting /\ c.b.resolved)
      BY <1>4, <2>2 DEF Ready, Sound, BatchSound
    <2>s. StorySound(x)
      <3>1. SameTale(c.t, x.t) /\ (x.i = c.i \/ x.i.of = 0)
        BY <2>3, <2>4 DEF SameTale, FailedAtOnce, PluginStarted
      <3> QED
        BY <1>4, <2>2, <2>5, <2>6, <3>1, StoryKeeps DEF Ready, Sound
    <2>7. JobSound(x)
      BY <1>4, <2>3, <2>4 DEF Ready, Sound, JobSound, FailedAtOnce, PluginStarted
    <2>8. EssentialSound(x)
      <3>1. "essential" \notin x.open
        BY <1>2, <2>5 DEF Beside
      <3>2. c.e.left \in 0 .. 3 /\ (Running(x) <=> Running(c))
        BY <1>4, <2>5 DEF Ready, Sound, EssentialSound, Running
      <3>3. CASE ~x.e.running /\ x.e.left = 0
        BY <3>1, <3>3 DEF EssentialSound
      <3>4. CASE /\ v.e.left # 0 /\ PluginStarted(x.i)
                 /\ x.e.left = v.e.left /\ x.e.last = "none"
        <4>1. x.e.left \in 0 .. 3 /\ x.e.left # 0
          BY <2>3, <3>2, <3>4
        <4>2. x.i.kind = "plugin" /\ x.i.of = 0 /\ x.i.st # "Idle"
          BY <3>4 DEF PluginStarted
        <4>3. ~x.t.mixed /\ Running(x) => x.b.waiting /\ x.b.resolved
          BY <2>5, <2>6, <3>2
        <4> QED
          BY <3>1, <3>4, <4>1, <4>2, <4>3 DEF EssentialSound
      <3> QED
        BY <2>4, <3>3, <3>4
    <2>9. BatchSound(x) /\ StorageSound(x)
      BY <1>4, <2>5, <2>6
      DEF Ready, Sound, BatchSound, StorageSound, Running, Beside, AtStorage
    <2>10. Unseen(x)
      <3>1. QueueUnseen(x)
        BY <2>4 DEF QueueUnseen, PluginStarted
      <3>2. BatchUnseen(x)
        BY <2>5, <2>6 DEF BatchUnseen, Running
      <3> QED
        BY <3>1, <3>2 DEF Unseen
    <2>11. Moves(c, x)
      <3>1. x.e.running => x.i.st = "Working"
        BY <2>4 DEF PluginStarted
      <3>2. ~AtStorage(x) /\ (Undecided(x) <=> Undecided(c))
        BY <1>4, <2>5 DEF Ready, AtStorage, Beside, Undecided
      <3>3. Undecided(x) /\ Running(x) /\ ~x.t.mixed => x.b.waiting
        BY <1>4, <2>5, <2>6 DEF Running
      <3> QED
        BY <3>1, <3>2, <3>3 DEF Moves
    <2>12. Handled(c, x)
      BY <2>s, <2>5, <2>7, <2>8, <2>9, <2>10, <2>11 DEF Handled, Sound, Beside
    <2> QED
      BY <1>1, <2>12, AfterSame
  <1> QED
    BY <1>3, <1>4, <1>5

\* A step that leaves both queues and the job alone, and arms no deletion.
Quiet(u, x) == Same(u, x) /\ (x.ui.sure => u.ui.sure)

LEMMA QuietTrans ==
  ASSUME NEW u, NEW v, NEW x, Quiet(u, v), Quiet(v, x)
  PROVE  Quiet(u, x)
  BY SameTrans DEF Quiet

LEMMA QuietSelf ==
  ASSUME NEW u, Shape(u)
  PROVE  Quiet(u, u)
  BY SameSelf DEF Quiet

LEMMA ClosesQuiet ==
  ASSUME NEW u, Shape(u), NEW d, d # "storage"
  PROVE  Quiet(u, Closes(u, d)) /\ Closes(u, d).ui = u.ui
  <1> DEFINE x == Closes(u, d)
  <1>1. /\ DOMAIN x = Fields /\ x.ui = u.ui /\ x.open = u.open \ {d} /\ x.work = u.work
        /\ x.view = u.view
        /\ x.b = u.b /\ x.e = u.e /\ x.i = u.i /\ x.s = u.s /\ x.t = u.t /\ x.reboot = u.reboot
    BY DEF Closes, Shape, Fields
  <1> HIDE DEF x
  <1>2. Same(u, x)
    BY <1>1, LooksSame DEF Shape, AtStorage
  <1>3. Quiet(u, x) /\ x.ui = u.ui
    BY <1>1, <1>2 DEF Quiet
  <1> QED
    BY <1>3 DEF x

LEMMA OpensQuiet ==
  ASSUME NEW u, Shape(u), NEW d \in Dialogs, d \notin {"storage", "essential"}
  PROVE  Quiet(u, Opens(u, d)) /\ Opens(u, d).ui = u.ui
  <1> DEFINE x == Opens(u, d)
  <1>1. /\ DOMAIN x = Fields /\ x.ui = u.ui /\ x.open = u.open \cup {d} /\ x.work = u.work
        /\ x.view = u.view
        /\ x.b = u.b /\ x.e = u.e /\ x.i = u.i /\ x.s = u.s /\ x.t = u.t /\ x.reboot = u.reboot
    BY DEF Opens, Shape, Fields
  <1> HIDE DEF x
  <1>2. Same(u, x)
    BY <1>1, LooksSame DEF Shape, AtStorage
  <1>3. Quiet(u, x) /\ x.ui = u.ui
    BY <1>1, <1>2 DEF Quiet
  <1> QED
    BY <1>3 DEF x

LEMMA HiresQuiet ==
  ASSUME NEW u, Shape(u), NEW z, z # "remove", NEW x \in Hires(u, z)
  PROVE  Quiet(u, x) /\ x.ui = u.ui
  <1>1. x = u \/ x = [u EXCEPT !.work = @ \cup {z}]
    BY DEF Hires
  <1>2. x.ui = u.ui
    BY <1>1 DEF Shape, Fields
  <1> QED
    BY <1>2, HiresSame DEF Quiet

\* The dialogs that only close, open another or start a thread.
LEMMA NoticesQuiet ==
  ASSUME NEW u, Shape(u),
         NEW x \in ArchiveNotice(u) \cup WebQr(u) \cup Protection(u) \cup ThemePicker(u)
                   \cup News(u) \cup FilterButton(u) \cup OpenReport(u) \cup OpenRequest(u)
                   \cup DataMenu(u) \cup OpenData(u) \cup ReportForm(u) \cup DataRequest(u)
                   \cup Report(u)
  PROVE  Quiet(u, x) /\ x.ui = u.ui
  <1>1. \/ \E d \in {"archive", "webQr", "protection", "theme", "news", "data", "report",
                     "request"} : x = Closes(u, d)
        \/ \E d \in {"filter", "report", "request", "keyboard"} : x = Opens(u, d)
        \/ \E z \in {"data", "feedback", "report"} : x = u \/ x \in Hires(u, z)
        \/ x = Opens(u, "data") \/ x \in Hires(Opens(u, "data"), "data")
        \/ x \in Hires(Closes(u, "request"), "request")
    <2>1. CASE x \in ArchiveNotice(u) \cup WebQr(u) \cup Protection(u) \cup ThemePicker(u)
                   \cup News(u)
      BY <2>1 DEF ArchiveNotice, WebQr, Protection, ThemePicker, News
    <2>2. CASE x \in FilterButton(u) \cup OpenReport(u) \cup OpenRequest(u)
      BY <2>2 DEF FilterButton, OpenReport, OpenRequest
    <2>3. CASE x \in DataMenu(u) \cup OpenData(u)
      BY <2>3 DEF DataMenu, OpenData, DataWork
    <2>4. CASE x \in ReportForm(u) \cup DataRequest(u) \cup Report(u)
      BY <2>4 DEF ReportForm, DataRequest, Report
    <2> QED
      BY <2>1, <2>2, <2>3, <2>4
  <1>2. ASSUME NEW v, Quiet(u, v), v.ui = u.ui, NEW z, z # "remove", x \in Hires(v, z)
        PROVE  Quiet(u, x) /\ x.ui = u.ui
    BY <1>2, HiresQuiet, QuietTrans DEF Quiet, Same
  <1>3. Quiet(u, Opens(u, "data")) /\ Opens(u, "data").ui = u.ui
    BY OpensQuiet DEF Dialogs
  <1>4. Quiet(u, Closes(u, "request")) /\ Closes(u, "request").ui = u.ui
    BY ClosesQuiet
  <1>5. CASE \E d \in {"archive", "webQr", "protection", "theme", "news", "data", "report",
                     "request"} : x = Closes(u, d)
    BY <1>5, ClosesQuiet
  <1>6. CASE \E d \in {"filter", "report", "request", "keyboard"} : x = Opens(u, d)
    BY <1>6, OpensQuiet DEF Dialogs
  <1>7. CASE \E z \in {"data", "feedback", "report"} : x = u \/ x \in Hires(u, z)
    BY <1>7, HiresQuiet, QuietSelf
  <1>8. CASE x = Opens(u, "data") \/ x \in Hires(Opens(u, "data"), "data")
    BY <1>8, <1>2, <1>3
  <1>9. CASE x \in Hires(Closes(u, "request"), "request")
    BY <1>9, <1>2, <1>4
  <1> QED
    BY <1>1, <1>5, <1>6, <1>7, <1>8, <1>9

LEMMA FiltersQuiet ==
  ASSUME NEW u, Shape(u), NEW f \in {"all", "some", "state"}, NEW x \in Filters(u, f)
  PROVE  Quiet(u, x)
  <1> DEFINE v == [u EXCEPT !.ui.filter = f, !.ui.sel = 1]
  <1>1. Quiet(u, v)
    <2>1. /\ DOMAIN v = Fields /\ DOMAIN v.ui = DOMAIN u.ui /\ v.ui.filter = f
          /\ v.view = u.view /\ v.ui.list = u.ui.list /\ v.ui.tab = u.ui.tab
          /\ v.open = u.open /\ v.work = u.work /\ v.ui.sure = u.ui.sure
          /\ v.b = u.b /\ v.e = u.e /\ v.i = u.i /\ v.s = u.s /\ v.t = u.t /\ v.reboot = u.reboot
      BY DEF Shape, Fields
    <2> HIDE DEF v
    <2>2. Same(u, v)
      BY <2>1, LooksSame DEF Shape, AtStorage
    <2> QED
      BY <2>1, <2>2 DEF Quiet
  <1>2. x \in Rebuilt(v)
    BY DEF Filters
  <1> HIDE DEF v
  <1>3. Same(v, x) /\ x.ui = v.ui
    BY <1>1, <1>2, RebuiltSame DEF Quiet, Same
  <1> QED
    BY <1>1, <1>3, SameTrans DEF Quiet

LEMMA FilterMenuQuiet ==
  ASSUME NEW u, Shape(u), NEW x \in FilterMenu(u)
  PROVE  Quiet(u, x)
  <1> DEFINE c == Closes(u, "filter")
  <1>1. Quiet(u, c)
    BY ClosesQuiet
  <1>2. x = c \/ \E f \in {"all", "some", "state"} : x \in Filters(c, f)
    BY DEF FilterMenu
  <1> HIDE DEF c
  <1> QED
    BY <1>1, <1>2, FiltersQuiet, QuietTrans DEF Quiet, Same

\* The page: its mode, its tab, its selection.
LEMMA PageQuiet ==
  ASSUME NEW u, Shape(u),
         NEW x \in OpenSettings(u) \cup ChangeTab(u) \cup MovesFocus(u) \cup OpensDetail(u)
                   \cup RebootDialog(u) \cup {Off(u)}
                   \cup {[u EXCEPT !.ui.mode = m] : m \in {"CLOSING_DETAIL", u.ui.back}}
  PROVE  Quiet(u, x)
  <1> DEFINE moved(m) == [u EXCEPT !.ui.mode = m]
             away(m, n) == [u EXCEPT !.ui.mode = m, !.ui.back = n]
             at(n) == [u EXCEPT !.ui.sel = n]
  <1>1. \/ x = Off(u)
        \/ \E m : x = moved(m)
        \/ \E m, n : x = away(m, n)
        \/ \E n : x = at(n)
        \/ \E tab \in Tabs : \E begun : x = EmptyPage(u, tab, begun)
    <2>1. x \in OpenSettings(u) => \E m, n : x = away(m, n)
      BY DEF OpenSettings
    <2>2. x \in ChangeTab(u) => \E tab \in Tabs : \E begun : x = EmptyPage(u, tab, begun)
      BY DEF ChangeTab
    <2>3. x \in MovesFocus(u) => \E n : x = at(n)
      BY DEF MovesFocus
    <2>4. x \in OpensDetail(u) => \E m : x = moved(m)
      BY DEF OpensDetail
    <2>5. x \in RebootDialog(u) \cup {Off(u)} => x = Off(u)
      BY DEF RebootDialog
    <2> QED
      BY <2>1, <2>2, <2>3, <2>4, <2>5
  <1> DEFINE Kept == /\ x.ui.sure = u.ui.sure /\ x.ui.filter = u.ui.filter
                     /\ DOMAIN x.ui = DOMAIN u.ui
                     /\ x.view \in Seq(Apps) /\ x.ui.list \in Seq(Apps) /\ x.ui.tab \in Tabs
  <1>2. Kept
    <2>1. ASSUME NEW m, x = moved(m) \/ x = at(m)
          PROVE  Kept
      BY <2>1 DEF Shape, Fields
    <2>4. ASSUME NEW m, NEW n, x = away(m, n)
          PROVE  Kept
      BY <2>4 DEF Shape, Fields
    <2>2. ASSUME NEW m \in Tabs, NEW n, x = EmptyPage(u, m, n)
          PROVE  Kept
      <3>1. <<>> \in Seq(Apps)
        OBVIOUS
      <3> QED
        BY <2>2, <3>1 DEF Shape, Fields, EmptyPage
    <2>3. CASE x = Off(u)
      BY <2>3 DEF Shape, Fields, Off
    <2> QED
      BY <1>1, <2>1, <2>2, <2>3, <2>4
  <1>3. /\ DOMAIN x = Fields /\ x.open = u.open /\ x.work = u.work
        /\ x.b = u.b /\ x.e = u.e /\ x.i = u.i /\ x.s = u.s /\ x.t = u.t /\ x.reboot = u.reboot
    BY <1>1, ZenonT(40) DEF Shape, Fields, Off, EmptyPage
  <1>4. Same(u, x)
    BY <1>2, <1>3, LooksSame DEF Shape, AtStorage
  <1> QED
    BY <1>2, <1>4 DEF Quiet

LEMMA QuietHandled ==
  ASSUME NEW u, Ready(u), NEW x, Quiet(u, x)
  PROVE  Handled(u, x)
  BY SameHandled DEF Quiet

LEMMA BeforeSame ==
  ASSUME NEW u, NEW v, Handled(u, v), NEW x, Same(v, x), ~AtStorage(v)
  PROVE  Handled(u, x)
  <1>1. Sound(x) /\ Unseen(x)
    BY SameSound DEF Handled
  <1>2. (PluginJob(x) <=> PluginJob(v)) /\ (Asks(x) <=> Asks(v)) /\ (Undecided(x) <=> Undecided(v))
        /\ x.b.phase = v.b.phase /\ x.b.waiting = v.b.waiting /\ (Running(x) <=> Running(v))
        /\ x.i = v.i /\ x.e = v.e /\ (x.t.mixed <=> v.t.mixed) /\ ~AtStorage(x)
    BY DEF Same, PluginJob, Asks, Undecided, Alike, Running
  <1> QED
    BY <1>1, <1>2 DEF Handled, Moves

LEMMA OpenStorageHandled ==
  ASSUME NEW u, Ready(u), NEW x \in OpenStorage(u)
  PROVE  Handled(u, x)
  <1> DEFINE o == Opens(u, "storage")
             v == [o EXCEPT !.ui.sure = FALSE]
  <1>1. /\ u.b.phase = "Hidden" /\ ~Asks(u) /\ Takes(u)
        /\ x = v \/ x = [v EXCEPT !.work = @ \cup {"scan"}]
    BY DEF OpenStorage, Hires, Busy, Asks
  <1>2. /\ DOMAIN o = Fields /\ o.ui = u.ui /\ o.open = u.open \cup {"storage"} /\ o.work = u.work
        /\ o.view = u.view
        /\ o.b = u.b /\ o.e = u.e /\ o.i = u.i /\ o.s = u.s /\ o.t = u.t /\ o.reboot = u.reboot
    BY DEF Ready, Sound, Shape, Opens, Fields
  <1> HIDE DEF o
  <1>3. /\ DOMAIN v = Fields /\ DOMAIN v.ui = DOMAIN u.ui /\ ~v.ui.sure
        /\ v.ui.filter = u.ui.filter
        /\ v.view = u.view /\ v.ui.list = u.ui.list /\ v.ui.tab = u.ui.tab
        /\ v.open = u.open \cup {"storage"} /\ v.work = u.work
        /\ v.b = u.b /\ v.e = u.e /\ v.i = u.i /\ v.s = u.s /\ v.t = u.t /\ v.reboot = u.reboot
    BY <1>2 DEF Ready, Sound, Shape, Fields
  <1> HIDE DEF v
  <1>4. /\ DOMAIN x = Fields /\ DOMAIN x.ui = DOMAIN u.ui /\ ~x.ui.sure
        /\ x.ui.filter = u.ui.filter
        /\ x.view = u.view /\ x.ui.list = u.ui.list /\ x.ui.tab = u.ui.tab
        /\ x.open = u.open \cup {"storage"}
        /\ "remove" \in x.work => "remove" \in u.work
        /\ x.b = u.b /\ x.e = u.e /\ x.i = u.i /\ x.s = u.s /\ x.t = u.t /\ x.reboot = u.reboot
    BY <1>1, <1>3 DEF Fields
  <1>5. Shape(x)
    BY <1>4 DEF Ready, Sound, Shape, Dialogs
  <1>6. JobSound(x) /\ EssentialSound(x) /\ BatchSound(x)
    BY <1>4 DEF Ready, Sound, JobSound, EssentialSound, BatchSound, Running
  <1>7. "remove" \notin u.work
    BY DEF Ready, Sound, StorageSound
  <1>8. StorageSound(x)
    BY <1>1, <1>4, <1>7 DEF StorageSound
  <1>9. Unseen(x)
    BY <1>4 DEF Ready, Unseen, BatchUnseen, QueueUnseen, Running
  <1>10. Moves(u, x)
    BY <1>1, <1>4, <1>7 DEF Moves, Ready, Decided, PluginJob, Asks, Undecided, Running
  <1>s. StorySound(x)
    <2>1. StorySound(u)
      BY DEF Ready, Sound
    <2> QED
      BY <1>4, <2>1, StoryKeeps DEF SameTale
  <1> QED
    BY <1>5, <1>6, <1>8, <1>9, <1>10, <1>s DEF Handled, Sound

LEMMA OpenWizardHandled ==
  ASSUME NEW u, Ready(u), NEW x \in OpenWizard(u)
  PROVE  Handled(u, x)
  <1> DEFINE ask == [item |-> u.ui.sel, app |-> TheApp(u), all |-> TRUE]
             o == Opens(u, "psp")
             v == [o EXCEPT !.ui.ask = ask]
  <1>1. x = v \/ x = OpenBatch(u, u.ui.sel)
    BY DEF OpenWizard
  <1> HIDE DEF ask
  <1>2. Quiet(u, o) /\ o.ui = u.ui
    BY OpensQuiet DEF Ready, Sound, Dialogs
  <1> HIDE DEF o
  <1>3. Same(u, v)
    <2>1. /\ DOMAIN v = Fields /\ DOMAIN v.ui = DOMAIN u.ui /\ v.ui.filter = u.ui.filter
          /\ v.view = o.view /\ v.ui.list = u.ui.list /\ v.ui.tab = u.ui.tab
          /\ v.open = o.open /\ v.work = o.work
          /\ v.b = o.b /\ v.e = o.e /\ v.i = o.i /\ v.s = o.s /\ v.t = o.t /\ v.reboot = o.reboot
      BY <1>2 DEF Quiet, Same, Shape, Fields
    <2> HIDE DEF v
    <2>2. Same(o, v)
      BY <1>2, <2>1, LooksSame DEF Quiet, Same, Shape, AtStorage
    <2> QED
      BY <1>2, <2>2, SameTrans DEF Quiet
  <1> HIDE DEF v
  <1> QED
    BY <1>1, <1>3, SameHandled, OpenBatchHandled

\* The dialog that asks for a consent, or for the PSP setup, notes what it was opened for.
LEMMA AskSame ==
  ASSUME NEW u, Shape(u), NEW d \in Dialogs, d \notin {"storage", "essential"}, NEW ask
  PROVE  /\ Same(u, [Opens(u, d) EXCEPT !.ui.ask = ask])
         /\ Same(u, Opens([u EXCEPT !.ui.ask = ask, !.ui.sure = FALSE], d))
  <1>1. Same(u, [Opens(u, d) EXCEPT !.ui.ask = ask])
    <2> DEFINE o == Opens(u, d)
               v == [o EXCEPT !.ui.ask = ask]
    <2>1. Quiet(u, o) /\ o.ui = u.ui
      BY OpensQuiet
    <2> HIDE DEF o
    <2>2. /\ DOMAIN v = Fields /\ DOMAIN v.ui = DOMAIN u.ui /\ v.ui.filter = u.ui.filter
          /\ v.view = o.view /\ v.ui.list = u.ui.list /\ v.ui.tab = u.ui.tab
          /\ v.open = o.open /\ v.work = o.work
          /\ v.b = o.b /\ v.e = o.e /\ v.i = o.i /\ v.s = o.s /\ v.t = o.t /\ v.reboot = o.reboot
      BY <2>1 DEF Quiet, Same, Shape, Fields
    <2> HIDE DEF v
    <2>3. Same(o, v)
      BY <2>1, <2>2, LooksSame DEF Quiet, Same, Shape, AtStorage
    <2>4. Same(u, v)
      BY <2>1, <2>3, SameTrans DEF Quiet
    <2> QED
      BY <2>4 DEF v, o
  <1>2. Same(u, Opens([u EXCEPT !.ui.ask = ask, !.ui.sure = FALSE], d))
    <2> DEFINE v == [u EXCEPT !.ui.ask = ask, !.ui.sure = FALSE]
    <2>1. /\ DOMAIN v = Fields /\ DOMAIN v.ui = DOMAIN u.ui /\ v.ui.filter = u.ui.filter
          /\ v.view = u.view /\ v.ui.list = u.ui.list /\ v.ui.tab = u.ui.tab
          /\ v.open = u.open /\ v.work = u.work
          /\ v.b = u.b /\ v.e = u.e /\ v.i = u.i /\ v.s = u.s /\ v.t = u.t /\ v.reboot = u.reboot
      BY DEF Shape, Fields
    <2> HIDE DEF v
    <2>2. Same(u, v)
      BY <2>1, LooksSame DEF Shape, AtStorage
    <2>3. Same(v, Opens(v, d))
      BY <2>2, OpensQuiet DEF Quiet, Same
    <2>4. Same(u, Opens(v, d))
      BY <2>2, <2>3, SameTrans
    <2> QED
      BY <2>4 DEF v
  <1> QED
    BY <1>1, <1>2

LEMMA GateHandled ==
  ASSUME NEW u, Ready(u), NEW item, NEW x \in Gate(u, item)
  PROVE  Handled(u, x)
  <1> DEFINE ask == [item |-> item, app |-> u.view[item], all |-> FALSE]
             v == [Opens(u, "plugin") EXCEPT !.ui.ask = ask]
  <1>1. \/ x = u \/ x = v
        \/ \E k \in ToSet(Kinds) : x \in Link(u, k)
    BY DEF Gate
  <1>2. Same(u, v)
    <2> HIDE DEF ask
    <2> QED
      BY AskSame DEF Ready, Sound, Dialogs
  <1> HIDE DEF v
  <1>3. ToSet(Kinds) \subseteq LinkKinds
    BY DEF ToSet, Kinds, LinkKinds
  <1>4. Same(u, u)
    BY SameSelf DEF Ready, Sound
  <1> QED
    BY <1>1, <1>2, <1>3, <1>4, SameHandled, LinkHandled

LEMMA PrimaryActionHandled ==
  ASSUME NEW u, Ready(u), NEW x \in PrimaryAction(u)
  PROVE  Handled(u, x)
  <1>1. x \in OpenWizard(u) \/ x = Off(u) \/ x \in Link(u, "app")
    BY DEF PrimaryAction
  <1>2. CASE x = Off(u)
    BY <1>2, OffSame, SameHandled DEF Ready, Sound
  <1> QED
    BY <1>1, <1>2, OpenWizardHandled, LinkHandled DEF LinkKinds

LEMMA FocusedLinkHandled ==
  ASSUME NEW u, Ready(u), NEW x \in FocusedLink(u)
  PROVE  Handled(u, x)
  <1> DEFINE ask == [item |-> u.ui.sel, app |-> TheApp(u), all |-> FALSE]
             asked == [u EXCEPT !.ui.ask = ask, !.ui.sure = FALSE]
  <1>1. \/ x \in PrimaryAction(u)
        \/ x = Opens(asked, "savedZip") \/ x = Opens(asked, "psp")
        \/ x = Opens(u, "webQr")
        \/ x \in Gate(u, u.ui.sel)
    BY DEF FocusedLink
  <1> HIDE DEF ask
  <1>2. Same(u, Opens(asked, "savedZip")) /\ Same(u, Opens(asked, "psp"))
        /\ Same(u, Opens(u, "webQr"))
    BY AskSame, OpensQuiet DEF Ready, Sound, Quiet, Dialogs
  <1> HIDE DEF asked
  <1>3. CASE x \in Gate(u, u.ui.sel)
    BY <1>3, GateHandled
  <1> QED
    BY <1>1, <1>2, <1>3, SameHandled, PrimaryActionHandled

LEMMA SavedZipHandled ==
  ASSUME NEW u, Ready(u), NEW x \in SavedZip(u)
  PROVE  Handled(u, x)
  <1> DEFINE c == Closes(u, "savedZip")
             gone == [c EXCEPT !.ui.sure = FALSE]
             armed == [u EXCEPT !.ui.sure = TRUE]
  <1>1. \/ x = gone \/ x = armed
        \/ \E v \in Link(u, "data") : x = v \/ x = Closes(v, "savedZip")
    BY DEF SavedZip
  <1>2. Same(u, c)
    BY ClosesQuiet DEF Ready, Sound, Quiet
  <1> HIDE DEF c
  <1>3. ASSUME NEW z, Same(u, z), NEW yes, NEW v, v = [z EXCEPT !.ui.sure = yes]
        PROVE  Same(u, v)
    <2>1. /\ DOMAIN v = Fields /\ DOMAIN v.ui = DOMAIN z.ui /\ v.ui.filter = z.ui.filter
          /\ v.view = z.view /\ v.ui.list = z.ui.list /\ v.ui.tab = z.ui.tab
          /\ v.open = z.open /\ v.work = z.work
          /\ v.b = z.b /\ v.e = z.e /\ v.i = z.i /\ v.s = z.s /\ v.t = z.t /\ v.reboot = z.reboot
      BY <1>3 DEF Same, Shape, Fields
    <2>2. Same(z, v)
      BY <1>3, <2>1, LooksSame DEF Same, Shape, AtStorage
    <2> QED
      BY <1>3, <2>2, SameTrans
  <1>4. Same(u, u)
    BY SameSelf DEF Ready, Sound
  <1>5. Same(u, gone) /\ Same(u, armed)
    BY <1>2, <1>3, <1>4
  <1> HIDE DEF gone, armed
  <1>6. ASSUME NEW v \in Link(u, "data"), x = v \/ x = Closes(v, "savedZip")
        PROVE  Handled(u, x)
    <2>1. Handled(u, v) /\ v.open = u.open
      BY <1>6, LinkHandled DEF LinkKinds
    <2>2. ~AtStorage(v) /\ Shape(v)
      BY <2>1 DEF Handled, Sound, Ready, AtStorage
    <2>3. Same(v, Closes(v, "savedZip"))
      BY <2>2, ClosesQuiet DEF Quiet
    <2> QED
      BY <1>6, <2>1, <2>2, <2>3, BeforeSame
  <1> QED
    BY <1>1, <1>5, <1>6, SameHandled

LEMMA PluginChoiceHandled ==
  ASSUME NEW u, Ready(u), NEW x \in PluginChoice(u)
  PROVE  Handled(u, x)
  <1> DEFINE c == Closes(u, "plugin")
  <1>1. x = c \/ x \in Link(c, "plugin")
    BY DEF PluginChoice
  <1>2. Same(u, c)
    BY ClosesQuiet DEF Ready, Sound, Quiet
  <1> HIDE DEF c
  <1>3. Handled(u, c) /\ Ready(c)
    BY <1>2, SameHandled
  <1> QED
    BY <1>1, <1>2, <1>3, LinkHandled, AfterSame DEF LinkKinds

LEMMA PspSetupHandled ==
  ASSUME NEW u, Ready(u), NEW x \in PspSetup(u)
  PROVE  Handled(u, x)
  <1> DEFINE c == Closes(u, "psp")
             done == [c EXCEPT !.ui.psp = TRUE]
  <1>1. x = c \/ x = done \/ x \in OpenWizard(done) \/ \E item : x \in Gate(done, item)
    BY DEF PspSetup
  <1>2. Same(u, c)
    BY ClosesQuiet DEF Ready, Sound, Quiet
  <1> HIDE DEF c
  <1>3. Same(u, done)
    <2>1. /\ DOMAIN done = Fields /\ DOMAIN done.ui = DOMAIN c.ui /\ done.ui.filter = c.ui.filter
          /\ done.view = c.view /\ done.ui.list = c.ui.list /\ done.ui.tab = c.ui.tab
          /\ done.open = c.open /\ done.work = c.work
          /\ done.b = c.b /\ done.e = c.e /\ done.i = c.i /\ done.s = c.s /\ done.t = c.t
          /\ done.reboot = c.reboot
      BY <1>2 DEF Same, Shape, Fields
    <2> HIDE DEF done
    <2>2. Same(c, done)
      BY <1>2, <2>1, LooksSame DEF Same, Shape, AtStorage
    <2> QED
      BY <1>2, <2>2, SameTrans
  <1> HIDE DEF done
  <1>4. Handled(u, c) /\ Handled(u, done) /\ Ready(done)
    BY <1>2, <1>3, SameHandled
  <1>5. CASE x \in OpenWizard(done)
    BY <1>3, <1>4, <1>5, OpenWizardHandled, AfterSame
  <1>6. CASE \E item : x \in Gate(done, item)
    BY <1>3, <1>4, <1>6, GateHandled, AfterSame
  <1> QED
    BY <1>1, <1>4, <1>5, <1>6

\* What a frame tells the screen of the self update, while the storage menu is closed.
LEMMA ToldHandled ==
  ASSUME NEW u, Sound(u), Unseen(u), ~AtStorage(u), NEW outcome \in {"none", "failed"},
         Tells(u, TRUE, outcome, FALSE, FALSE), NEW x \in Told(u, TRUE, outcome, FALSE, FALSE)
  PROVE  /\ Sound(x) /\ Unseen(x) /\ ~AtStorage(x) /\ ~Undecided(x)
         /\ outcome = "none" => Asks(x) /\ (x.e.running => u.e.running)
         /\ x.t.mixed = u.t.mixed /\ (Running(x) => Running(u))
         /\ outcome = "failed" => ~x.e.running
         /\ \A v : Handled(v, x)
  <1>1. AtPoll(u) /\ Tells(u, TRUE, outcome, FALSE, FALSE)
    BY DEF AtPoll
  <1>7. BatchUnseen(u) /\ QueueUnseen(u)
    BY DEF Unseen
  <1>2. /\ Sound(x) /\ x.open \in {u.open, u.open \ {"protection"}}
        /\ x.s = [active |-> TRUE, outcome |-> outcome, zip |-> FALSE]
        /\ x.e.running => u.e.running /\ outcome \in {"none", "ok"}
        /\ x.t.mixed = u.t.mixed /\ (Running(x) => Running(u))
        /\ Unseen(x)
    <2> DEFINE no == FALSE
               yes == TRUE
    <2>1. AtPoll(u) /\ Tells(u, yes, outcome, no, no) /\ x \in Told(u, yes, outcome, no, no)
      BY <1>1
    <2>2. ~no
      OBVIOUS
    <2> HIDE DEF no, yes
    <2>3. /\ Sound(x) /\ x.open \in {u.open, u.open \ {"protection"}}
          /\ x.s = [active |-> yes, outcome |-> outcome, zip |-> no]
          /\ ~(no /\ outcome = "ok") /\ x.e.running => u.e.running /\ outcome \in {"none", "ok"}
          /\ x.t.mixed = u.t.mixed /\ (Running(x) => Running(u))
          /\ Unseen(x)
      BY <1>7, <2>1, ToldSound
    <2> QED
      BY <2>2, <2>3 DEF yes, no
  <1>3. ~AtStorage(x) /\ ~Undecided(x)
    BY <1>2 DEF AtStorage, Undecided
  <1>4. outcome = "none" => Asks(x)
    BY <1>2 DEF Asks
  <1>5. outcome = "failed" => ~x.e.running
    BY <1>2
  <1>6. \A v : Moves(v, x)
    BY <1>3, <1>4, <1>5 DEF Moves
  <1> QED
    BY <1>2, <1>3, <1>4, <1>5, <1>6 DEF Handled

LEMMA StartUpdateHandled ==
  ASSUME NEW u, Ready(u), NEW x \in StartUpdate(u)
  PROVE  Handled(u, x)
  <1> DEFINE c == [u EXCEPT !.ui.mode = u.ui.back]
             begun == [c EXCEPT !.work = @ \cup {"update"}]
             failed == [c EXCEPT !.faults = @ + 1,
                                 !.t.mixed = @ \/ Running(u) \/ u.e.running]
  <1>1. \/ x \in Told(begun, TRUE, "none", FALSE, FALSE)
        \/ \E y \in Told(failed, TRUE, "none", FALSE, FALSE) :
              x \in Told(y, TRUE, "failed", FALSE, FALSE)
    BY DEF StartUpdate, Then
  <1>2. Quiet(u, c)
    BY PageQuiet DEF Ready, Sound
  <1> HIDE DEF c
  <1>3. Same(u, begun)
    <2>1. /\ DOMAIN begun = Fields /\ begun.ui = c.ui /\ begun.open = c.open
          /\ begun.work = c.work \cup {"update"} /\ begun.view = c.view
          /\ begun.b = c.b /\ begun.e = c.e /\ begun.i = c.i /\ begun.s = c.s /\ begun.t = c.t
          /\ begun.reboot = c.reboot
      BY <1>2 DEF Quiet, Same, Shape, Fields
    <2> HIDE DEF begun
    <2>2. Same(c, begun)
      BY <1>2, <2>1, LooksSame DEF Quiet, Same, Shape, AtStorage
    <2> QED
      BY <1>2, <2>2, SameTrans DEF Quiet
  <1>c. Sound(c) /\ Unseen(c) /\ ~AtStorage(c) /\ Same(u, c)
    BY <1>2, SameHandled DEF Quiet, Ready
  <1>m. Running(c) = Running(u) /\ c.e = u.e
    BY <1>c DEF Same, Alike, Running
  <1>4. /\ Sound(failed) /\ Unseen(failed) /\ ~AtStorage(failed)
        /\ failed.t.mixed \/ ~(Running(failed) \/ failed.e.running)
        /\ \A outcome \in Outcomes : Tells(failed, TRUE, outcome, FALSE, FALSE)
    <2> DEFINE mixed == c.t.mixed \/ Running(u) \/ u.e.running
    <2>m. mixed <=> (c.t.mixed \/ Running(c) \/ c.e.running)
      BY <1>m
    <2>0. failed = [c EXCEPT !.faults = @ + 1, !.t.mixed = mixed]
      OBVIOUS
    <2> HIDE DEF failed, mixed
    <2>s. Shape(c)
      BY <1>c DEF Same
    <2>1. /\ Shape(failed) /\ failed.b = c.b /\ failed.e = c.e /\ failed.i = c.i
          /\ failed.s = c.s /\ failed.open = c.open /\ failed.work = c.work
          /\ failed.t.mixed = mixed /\ SameTale(c.t, failed.t)
      BY <2>0, <2>s DEF Shape, Fields, NoTruth, SameTale
    <2>2. /\ Sound(failed) /\ (Unseen(c) => Unseen(failed))
          /\ \A outcome \in Outcomes : Tells(failed, TRUE, outcome, FALSE, FALSE)
      BY <1>c, <2>1, <2>m, MixesKeeps
    <2>3. ~AtStorage(failed)
      BY <1>c, <2>1 DEF AtStorage
    <2>4. failed.t.mixed <=> (c.t.mixed \/ Running(c) \/ c.e.running)
      BY <2>1, <2>m
    <2>5. (Running(failed) <=> Running(c)) /\ failed.e = c.e
      BY <2>1 DEF Running
    <2> QED
      BY <1>c, <2>2, <2>3, <2>4, <2>5
  <1> HIDE DEF begun, failed
  <1>5. Ready(begun)
    BY <1>3, SameHandled
  <1>n. ASSUME NEW v PROVE Tells(v, TRUE, "none", FALSE, FALSE)
    BY DEF Tells, Outcomes, Hears
  <1>6. CASE x \in Told(begun, TRUE, "none", FALSE, FALSE)
    BY <1>5, <1>6, <1>n, ToldHandled DEF Ready
  <1>7. ASSUME NEW y \in Told(failed, TRUE, "none", FALSE, FALSE),
               x \in Told(y, TRUE, "failed", FALSE, FALSE)
        PROVE  Handled(u, x)
    <2>1. /\ Sound(y) /\ Unseen(y) /\ ~AtStorage(y) /\ y.t.mixed = failed.t.mixed
          /\ Running(y) => Running(failed)
          /\ y.e.running => failed.e.running
      BY <1>4, <1>7, <1>n, ToldHandled
    <2>2. Tells(y, TRUE, "failed", FALSE, FALSE)
      BY <1>4, <2>1 DEF Tells, Hears, Outcomes
    <2> QED
      BY <1>7, <2>1, <2>2, ToldHandled
  <1> QED
    BY <1>1, <1>6, <1>7

LEMMA SettingsHandled ==
  ASSUME NEW u, Ready(u), NEW x \in Settings(u)
  PROVE  Handled(u, x)
  <1>1. x = [u EXCEPT !.ui.mode = u.ui.back] \/ x = Opens(u, "theme") \/ x \in StartUpdate(u)
    BY DEF Settings
  <1>2. CASE x = [u EXCEPT !.ui.mode = u.ui.back]
    BY <1>2, PageQuiet, QuietHandled DEF Ready, Sound
  <1>3. CASE x = Opens(u, "theme")
    BY <1>3, OpensQuiet, QuietHandled DEF Ready, Sound, Dialogs
  <1> QED
    BY <1>1, <1>2, <1>3, StartUpdateHandled

LEMMA DetailHandled ==
  ASSUME NEW u, Ready(u), NEW x \in Detail(u)
  PROVE  Handled(u, x)
  <1>1. \/ x = [u EXCEPT !.ui.mode = "CLOSING_DETAIL"]
        \/ x \in FocusedLink(u)
        \/ x \in OpenRequest(u) \cup OpenData(u)
    BY DEF Detail
  <1>2. CASE x = [u EXCEPT !.ui.mode = "CLOSING_DETAIL"]
    BY <1>2, PageQuiet, QuietHandled DEF Ready, Sound
  <1>3. CASE x \in OpenRequest(u) \cup OpenData(u)
    BY <1>3, NoticesQuiet, QuietHandled DEF Ready, Sound
  <1> QED
    BY <1>1, <1>2, <1>3, FocusedLinkHandled

LEMMA PageHandled ==
  ASSUME NEW u, Ready(u), NEW x \in PressPage(u) \cup TouchPage(u) \cup Keys(u)
  PROVE  Handled(u, x)
  <1>1. \/ x \in MovesFocus(u) \cup OpensDetail(u) \cup ChangeTab(u) \cup OpenSettings(u)
                 \cup {Off(u)}
        \/ x \in FilterButton(u) \cup OpenReport(u)
        \/ \E d \in {"keyboard", "webQr"} : x = Opens(u, d)
        \/ x \in Filters(u, "all")
        \/ x \in Detail(u) \cup OpenStorage(u)
    <2>1. CASE x \in PressPage(u)
      BY <2>1 DEF PressPage
    <2>2. CASE x \in TouchPage(u)
      BY <2>2 DEF TouchPage
    <2>3. CASE x \in Keys(u)
      BY <2>3 DEF Keys
    <2> QED
      BY <2>1, <2>2, <2>3
  <1> Shape(u)
    BY DEF Ready, Sound
  <1>2. CASE x \in MovesFocus(u) \cup OpensDetail(u) \cup ChangeTab(u) \cup OpenSettings(u)
                 \cup {Off(u)}
    BY <1>2, PageQuiet, QuietHandled
  <1>3. CASE x \in FilterButton(u) \cup OpenReport(u)
    BY <1>3, NoticesQuiet, QuietHandled
  <1>4. CASE \E d \in {"keyboard", "webQr"} : x = Opens(u, d)
    BY <1>4, OpensQuiet, QuietHandled DEF Dialogs
  <1>5. CASE x \in Filters(u, "all")
    BY <1>5, FiltersQuiet, QuietHandled
  <1>6. CASE x \in Detail(u) \cup OpenStorage(u)
    BY <1>6, DetailHandled, OpenStorageHandled
  <1> QED
    BY <1>1, <1>2, <1>3, <1>4, <1>5, <1>6

-----------------------------------------------------------------------------
(* Who answers *)

LEMMA PresentFacts ==
  ASSUME NEW u, Shape(u)
  PROVE  /\ \A l \in u.open : l \in Present(u)
         /\ "progress" \in Present(u) => u.s.active
         /\ "wizard" \in Present(u) => Wizard(u)
         /\ \A d \in {"essential", "storage"} : d \in Present(u) => d \in u.open
  <1> DEFINE flag == [reboot |-> u.reboot, wizard |-> Wizard(u), progress |-> u.s.active,
                      loading |-> u.ui.loading, settings |-> Mode(u, {"SETTINGS"}),
                      transition |-> Moving(u), page |-> TRUE]
  <1>1. Present(u) = u.open \cup {l \in DOMAIN flag : flag[l]}
    BY DEF Present
  <1>2. /\ DOMAIN flag = {"reboot", "wizard", "progress", "loading", "settings", "transition",
                          "page"}
        /\ flag["progress"] <=> u.s.active
        /\ flag["wizard"] <=> Wizard(u)
    OBVIOUS
  <1>3. "progress" \notin u.open /\ "wizard" \notin u.open
    BY DEF Shape, Dialogs
  <1> HIDE DEF flag
  <1> QED
    BY <1>1, <1>2, <1>3

\* What is known of the world when a layer answers: its flag is set, and the storage menu is
\* open only below the layers that are tested before it.
LEMMA ButtonLayer ==
  ASSUME NEW u, Shape(u), NEW layer, Answers(ButtonOrder, layer, u)
  PROVE  /\ layer \in Present(u)
         /\ AtStorage(u) => layer \in {"keyboard", "data", "storage"}
  <1>1. PICK n \in DOMAIN ButtonOrder :
            /\ ButtonOrder[n] = layer /\ layer \in Present(u)
            /\ \A m \in 1 .. n - 1 : ButtonOrder[m] \notin Present(u)
    BY DEF Answers
  <1>2. DOMAIN ButtonOrder = 1 .. 22 /\ ButtonOrder[1] = "keyboard" /\ ButtonOrder[2] = "data"
        /\ ButtonOrder[3] = "storage"
    BY DEF ButtonOrder
  <1>3. AtStorage(u) => n \in 1 .. 3
    BY <1>1, <1>2, PresentFacts DEF AtStorage
  <1> QED
    BY <1>1, <1>2, <1>3

LEMMA TouchLayer ==
  ASSUME NEW u, Shape(u), NEW layer, Answers(TouchOrder, layer, u)
  PROVE  /\ layer \in Present(u)
         /\ AtStorage(u) => layer \in {"keyboard", "transition", "archive", "protection", "report",
                                       "data", "storage"}
  <1>1. PICK n \in DOMAIN TouchOrder :
            /\ TouchOrder[n] = layer /\ layer \in Present(u)
            /\ \A m \in 1 .. n - 1 : TouchOrder[m] \notin Present(u)
    BY DEF Answers
  <1>2. /\ DOMAIN TouchOrder = 1 .. 22 /\ TouchOrder[1] = "keyboard"
        /\ TouchOrder[2] = "transition" /\ TouchOrder[3] = "archive"
        /\ TouchOrder[4] = "protection" /\ TouchOrder[5] = "report" /\ TouchOrder[6] = "data"
        /\ TouchOrder[7] = "storage"
    BY DEF TouchOrder
  <1>3. AtStorage(u) => n \in 1 .. 7
    BY <1>1, <1>2, PresentFacts DEF AtStorage
  <1> QED
    BY <1>1, <1>2, <1>3

-----------------------------------------------------------------------------
(* The storage menu *)

LEMMA InputIsTouch ==
  ASSUME NEW u, Sound(u), AtInput(u)
  PROVE  AtTouch(u)
  BY DEF AtInput, AtTouch, Running

LEMMA TouchIsPoll ==
  ASSUME NEW u, Sound(u), AtTouch(u)
  PROVE  AtPoll(u)
  BY DEF AtTouch, AtPoll

\* Its rows and its end: a removal is armed, started, or the menu is left once no thread
\* of it works.
LEMMA StorageStep ==
  ASSUME NEW u, Sound(u), Unseen(u), AtStorage(u),
         NEW x \in StorageRows(u) \cup StorageCloses(u) \cup {[u EXCEPT !.ui.sure = FALSE]}
  PROVE  /\ Sound(x) /\ Unseen(x)
         /\ AtInput(u) => AtInput(x)
         /\ AtTouch(u) => AtPoll(x)
  <1> DEFINE calm == [u EXCEPT !.ui.sure = FALSE]
             armed == [u EXCEPT !.ui.sure = TRUE]
             c == Closes(u, "storage")
             shut == [c EXCEPT !.ui.sure = FALSE]
             hired == [calm EXCEPT !.work = @ \cup {"remove"}]
  <1>1. \/ x = calm \/ x = armed
        \/ x \in OpenData(calm)
        \/ x = hired /\ u.ui.sure /\ Takes(u)
        \/ x = shut /\ ~Sweeping(u)
    BY DEF StorageRows, StorageCloses, Hires, Busy
  <1>2. ASSUME NEW v, v = calm \/ v = armed
        PROVE  Same(u, v) /\ v.work = u.work /\ v.open = u.open
    <2>1. /\ DOMAIN v = Fields /\ DOMAIN v.ui = DOMAIN u.ui /\ v.ui.filter = u.ui.filter
          /\ v.view = u.view /\ v.ui.list = u.ui.list /\ v.ui.tab = u.ui.tab
          /\ v.open = u.open /\ v.work = u.work
          /\ v.b = u.b /\ v.e = u.e /\ v.i = u.i /\ v.s = u.s /\ v.t = u.t /\ v.reboot = u.reboot
      BY <1>2 DEF Sound, Shape, Fields
    <2> QED
      BY <2>1, LooksSame DEF Sound, Shape, AtStorage
  <1>3. ASSUME NEW v, Same(u, v)
        PROVE  /\ Sound(v) /\ Unseen(v)
               /\ AtInput(u) => AtInput(v)
               /\ AtTouch(u) => AtPoll(v)
    BY <1>3, SameSound, TouchIsPoll
  <1>4. CASE x = calm \/ x = armed
    BY <1>2, <1>3, <1>4
  <1>5. CASE x \in OpenData(calm)
    <2>1. Same(u, calm) /\ Shape(calm)
      BY <1>2 DEF Same
    <2> HIDE DEF calm
    <2>2. Same(calm, x)
      BY <1>5, <2>1, NoticesQuiet DEF Quiet
    <2> QED
      BY <1>3, <2>1, <2>2, SameTrans
  <1>6. ASSUME DOMAIN x = Fields, DOMAIN x.ui = DOMAIN u.ui, x.ui.filter = u.ui.filter,
               x.view = u.view, x.ui.list = u.ui.list, x.ui.tab = u.ui.tab,
               x.b = u.b, x.e = u.e, x.i = u.i, x.s = u.s, x.t = u.t, x.reboot = u.reboot,
               x.open \subseteq u.open,
               "remove" \in x.work =>
                 AtStorage(x) /\ ("remove" \in u.work \/ (u.ui.sure /\ Takes(u)))
        PROVE  /\ Sound(x) /\ Unseen(x)
               /\ AtInput(u) => AtInput(x)
               /\ AtTouch(u) => AtPoll(x)
    <2>1. Shape(x)
      BY <1>6 DEF Sound, Shape
    <2>2. JobSound(x) /\ EssentialSound(x) /\ BatchSound(x)
      BY <1>6 DEF Sound, JobSound, EssentialSound, BatchSound, Running
    <2>3. StorageSound(x)
      BY <1>6 DEF Sound, StorageSound, AtStorage, Takes, Terminal
    <2>4. Unseen(x)
      BY <1>6 DEF Unseen, BatchUnseen, QueueUnseen, Running
    <2>5. (AtStorage(x) => AtStorage(u)) /\ (PluginJob(x) <=> PluginJob(u))
          /\ (Asks(x) <=> Asks(u)) /\ (Undecided(x) <=> Undecided(u)) /\ (Running(x) <=> Running(u))
      BY <1>6 DEF AtStorage, PluginJob, Asks, Undecided, Running
    <2>6. AtInput(u) => AtInput(x)
      BY <1>6, <2>5 DEF AtInput
    <2>7. AtTouch(u) => AtPoll(x)
      BY <1>6, <2>5 DEF AtTouch, AtPoll
    <2>8. StorySound(x)
      BY <1>6, StoryKeeps DEF Sound, SameTale
    <2> QED
      BY <2>1, <2>2, <2>3, <2>4, <2>6, <2>7, <2>8 DEF Sound
  <1>7. CASE x = hired /\ u.ui.sure /\ Takes(u)
    <2>1. Same(u, calm) /\ Shape(calm) /\ calm.work = u.work /\ calm.open = u.open
      BY <1>2 DEF Same
    <2>2. /\ calm.b = u.b /\ DOMAIN calm.ui = DOMAIN u.ui /\ calm.ui.filter = u.ui.filter
          /\ calm.t = u.t
          /\ calm.view = u.view /\ calm.ui.list = u.ui.list /\ calm.ui.tab = u.ui.tab
      BY DEF Sound, Shape, Fields
    <2> HIDE DEF calm
    <2>3. /\ DOMAIN x = Fields /\ x.ui = calm.ui /\ x.open = calm.open
          /\ x.work = calm.work \cup {"remove"}
          /\ x.b = calm.b /\ x.e = calm.e /\ x.i = calm.i /\ x.s = calm.s /\ x.t = calm.t
          /\ x.reboot = calm.reboot /\ x.view = calm.view
      BY <1>7, <2>1 DEF Shape, Fields
    <2>4. AtStorage(x)
      BY <2>1, <2>3 DEF AtStorage
    <2> QED
      BY <1>6, <1>7, <2>1, <2>2, <2>3, <2>4 DEF Same
  <1>8. CASE x = shut /\ ~Sweeping(u)
    <2>1. /\ DOMAIN c = Fields /\ c.ui = u.ui /\ c.open = u.open \ {"storage"} /\ c.work = u.work
          /\ c.view = u.view
          /\ c.b = u.b /\ c.e = u.e /\ c.i = u.i /\ c.s = u.s /\ c.t = u.t /\ c.reboot = u.reboot
      BY DEF Sound, Shape, Fields, Closes
    <2> HIDE DEF c
    <2>2. /\ DOMAIN x = Fields /\ DOMAIN x.ui = DOMAIN u.ui /\ x.ui.filter = u.ui.filter
          /\ x.view = u.view /\ x.ui.list = u.ui.list /\ x.ui.tab = u.ui.tab
          /\ x.open \subseteq u.open /\ x.work = u.work
          /\ x.b = u.b /\ x.e = u.e /\ x.i = u.i /\ x.s = u.s /\ x.t = u.t /\ x.reboot = u.reboot
      BY <1>8, <2>1 DEF Sound, Shape, Fields
    <2>3. "remove" \notin x.work
      BY <1>8, <2>2 DEF Sweeping
    <2> QED
      BY <1>6, <2>2, <2>3
  <1> QED
    BY <1>1, <1>4, <1>5, <1>7, <1>8

\* What may become of the world when a layer answers a touch, or a press.
ByTouch(layer, u, x) ==
    \/ layer = "data" /\ x \in DataMenu(u)
    \/ layer = "storage" /\ x \in PressStorage(u) \cup TouchStorage(u)
    \/ layer = "savedZip" /\ x \in SavedZip(u)
    \/ layer = "archive" /\ x \in ArchiveNotice(u)
    \/ layer = "reboot" /\ x \in RebootDialog(u)
    \/ layer = "plugin" /\ x \in PluginChoice(u)
    \/ layer = "essential" /\ x \in EssentialPrompt(u)
    \/ layer = "psp" /\ x \in PspSetup(u)
    \/ layer = "webQr" /\ x \in WebQr(u)
    \/ layer = "protection" /\ x \in Protection(u)
    \/ layer = "theme" /\ x \in ThemePicker(u)
    \/ layer = "filter" /\ x \in FilterMenu(u)
    \/ layer = "settings" /\ x \in Settings(u)
    \/ layer = "wizard" /\ x \in PressWizard(u) \cup TouchWizard(u)
    \/ layer = "request" /\ x \in DataRequest(u)
    \/ layer = "report" /\ x \in ReportForm(u)
    \/ layer = "news" /\ x \in News(u)
    \/ layer = "progress" /\ x \in Progress(u)
    \/ layer = "page" /\ x \in PressPage(u) \cup TouchPage(u)
\* A press also reaches what a layer leaves to the keys below it.
ByPress(layer, u, x) ==
    \/ ByTouch(layer, u, x)
    \/ layer \in Chord /\ x \in OpenStorage(u)
    \/ layer \in Keyed /\ x \in Keys(u)

\* While the storage menu is closed every one of them keeps what is known.
LEMMA AllHandled ==
  ASSUME NEW u, Ready(u), NEW layer, layer \in Present(u), NEW x, ByPress(layer, u, x)
  PROVE  Handled(u, x)
  <1> Shape(u)
    BY DEF Ready, Sound
  <1>1. CASE x \in DataMenu(u) \cup ArchiveNotice(u) \cup WebQr(u) \cup Protection(u)
                   \cup ThemePicker(u) \cup DataRequest(u) \cup ReportForm(u) \cup News(u)
    BY <1>1, NoticesQuiet, QuietHandled
  <1>2. CASE x \in RebootDialog(u)
    BY <1>2, PageQuiet, QuietHandled
  <1>3. CASE x \in FilterMenu(u)
    BY <1>3, FilterMenuQuiet, QuietHandled
  <1>4. CASE x \in PressPage(u) \cup TouchPage(u) \cup Keys(u)
    BY <1>4, PageHandled
  <1>5. CASE layer = "wizard" /\ x \in PressWizard(u) \cup TouchWizard(u)
    <2>1. Wizard(u)
      BY <1>5, PresentFacts
    <2> QED
      BY <1>5, <2>1, WizardHandled
  <1>6. CASE layer = "progress" /\ x \in Progress(u)
    <2>1. u.s.active
      BY <1>6, PresentFacts
    <2> QED
      BY <1>6, <2>1, ProgressHandled
  <1>7. CASE layer = "essential" /\ x \in EssentialPrompt(u)
    <2>1. "essential" \in u.open
      BY <1>7, PresentFacts
    <2> QED
      BY <1>7, <2>1, EssentialPromptHandled
  <1>8. CASE x \in SavedZip(u) \cup PluginChoice(u) \cup PspSetup(u)
    BY <1>8, SavedZipHandled, PluginChoiceHandled, PspSetupHandled
  <1>9. CASE x \in Settings(u)
    BY <1>9, SettingsHandled
  <1>10. CASE x \in OpenStorage(u)
    BY <1>10, OpenStorageHandled
  <1>11. ~(layer = "storage" /\ x \in PressStorage(u) \cup TouchStorage(u))
    BY PresentFacts DEF Ready, AtStorage
  <1> QED
    BY <1>1, <1>2, <1>3, <1>4, <1>5, <1>6, <1>7, <1>8, <1>9, <1>10, <1>11 DEF ByPress, ByTouch

-----------------------------------------------------------------------------
(* The layer that answers *)

\* From a press to the finger, and from the finger to the end of the frame.
LEMMA PressStep ==
  ASSUME NEW u, Rests(u), NEW layer, Answers(ButtonOrder, layer, u), NEW x, ByPress(layer, u, x)
  PROVE  Sound(x) /\ Unseen(x) /\ AtTouch(x)
  <1>1. Shape(u) /\ layer \in Present(u)
    BY ButtonLayer DEF Rests, Sound
  <1>2. CASE ~AtStorage(u)
    <2>1. Ready(u)
      BY <1>2 DEF Rests, Ready, Decided, AtInput
    <2> QED
      BY <1>1, <1>2, <2>1, AllHandled, HandledAtInput
  <1>3. CASE AtStorage(u)
    <2>1. layer \in {"keyboard", "data", "storage"}
      BY <1>1, <1>3, ButtonLayer
    <2>2. \/ x \in DataMenu(u)
          \/ x \in StorageRows(u) \cup StorageCloses(u) \cup {[u EXCEPT !.ui.sure = FALSE]}
      BY <2>1 DEF ByPress, ByTouch, Chord, Keyed, PressStorage, TouchStorage
    <2>3. CASE x \in DataMenu(u)
      <3>1. Same(u, x)
        BY <1>1, <2>3, NoticesQuiet DEF Quiet
      <3> QED
        BY <3>1, SameRests, InputIsTouch DEF Rests
    <2>4. CASE x \in StorageRows(u) \cup StorageCloses(u) \cup {[u EXCEPT !.ui.sure = FALSE]}
      BY <1>3, <2>4, StorageStep, InputIsTouch DEF Rests
    <2> QED
      BY <2>2, <2>3, <2>4
  <1> QED
    BY <1>2, <1>3

LEMMA TouchStep ==
  ASSUME NEW u, Sound(u), Unseen(u), AtTouch(u),
         NEW layer, Answers(TouchOrder, layer, u), NEW x, ByTouch(layer, u, x)
  PROVE  Flows(x)
  <1>1. Shape(u) /\ layer \in Present(u)
    BY TouchLayer DEF Sound
  <1>2. CASE ~AtStorage(u)
    <2>1. Ready(u)
      BY <1>2 DEF Ready, Decided, AtTouch
    <2> QED
      BY <1>1, <1>2, <2>1, AllHandled, HandledAtTouch DEF ByPress
  <1>3. CASE AtStorage(u)
    <2>1. layer \in {"keyboard", "transition", "archive", "protection", "report", "data",
                     "storage"}
      BY <1>1, <1>3, TouchLayer
    <2>2. \/ x \in ArchiveNotice(u) \cup Protection(u) \cup ReportForm(u) \cup DataMenu(u)
          \/ x \in StorageRows(u) \cup StorageCloses(u) \cup {[u EXCEPT !.ui.sure = FALSE]}
      BY <2>1 DEF ByTouch, PressStorage, TouchStorage
    <2>3. CASE x \in ArchiveNotice(u) \cup Protection(u) \cup ReportForm(u) \cup DataMenu(u)
      <3>1. Same(u, x)
        BY <1>1, <2>3, NoticesQuiet DEF Quiet
      <3> QED
        BY <3>1, TouchIsPoll, SameFlows DEF Flows
    <2>4. CASE x \in StorageRows(u) \cup StorageCloses(u) \cup {[u EXCEPT !.ui.sure = FALSE]}
      BY <1>3, <2>4, StorageStep DEF Flows
    <2> QED
      BY <2>2, <2>3, <2>4
  <1> QED
    BY <1>2, <1>3

-----------------------------------------------------------------------------
(* From worlds to the state *)

\* What is shown of a world keeps what is known of it.
LEMMA ShowKeeps ==
  ASSUME NEW u, Sound(u), Unseen(u), NEW next \in {"input", "touch"}, Show(u, next),
         next = "input" => AtInput(u), next = "touch" => AtTouch(u)
  PROVE  ScreenInv'
  <1> DEFINE x == Now'
             t == [u.t EXCEPT !.mixed = @ \/ (u.b.phase = "Running" /\ u.e.running)]
             ask == IF u.open \cap {"savedZip", "psp", "plugin"} = {} THEN NoAsk ELSE u.ui.ask
             back == IF u.ui.mode = "SETTINGS" THEN u.ui.back ELSE "FULL_CATALOG"
             page == [u.ui EXCEPT !.ask = ask, !.back = back]
  <1>1. /\ batch' = u.b /\ essential' = u.e /\ installer' = u.i /\ shown' = u.s
        /\ reboot' = u.reboot /\ view' = u.view /\ faults' = u.faults
        /\ open' = u.open /\ work' = u.work /\ stage' = u.stage /\ ui' = page
        /\ pc' \in {next, "off"}
    BY DEF Show, Become
  <1>2. truth' = t
    BY DEF Show, Become
  <1>3. DOMAIN t = DOMAIN u.t /\ (u.t.mixed => t.mixed) /\ SameTale(u.t, t)
    BY DEF Sound, Shape, NoTruth, SameTale
  <1>4. /\ DOMAIN page = DOMAIN u.ui /\ page.filter = u.ui.filter /\ page.sure = u.ui.sure
        /\ page.list = u.ui.list /\ page.tab = u.ui.tab
    <2> HIDE DEF ask, back
    <2> QED
      BY DEF Sound, Shape
  <1> HIDE DEF t, page
  <1>5. /\ DOMAIN x = Fields /\ x.b = u.b /\ x.e = u.e /\ x.i = u.i /\ x.s = u.s
        /\ x.t = t /\ x.open = u.open /\ x.work = u.work /\ x.ui = page /\ x.view = u.view
    BY <1>1, <1>2 DEF Now, Fields
  <1> HIDE DEF x
  <1>6. Shape(x)
    BY <1>3, <1>4, <1>5 DEF Sound, Shape
  <1>7. JobSound(x) /\ EssentialSound(x) /\ BatchSound(x) /\ StorageSound(x)
    BY <1>3, <1>5 DEF Sound, JobSound, EssentialSound, BatchSound, StorageSound, Running, AtStorage
  <1>8. Unseen(x)
    BY <1>3, <1>5 DEF Unseen, BatchUnseen, QueueUnseen, Running
  <1>9. AtInput(u) => AtInput(x)
    BY <1>3, <1>5 DEF AtInput, PluginJob, Asks, Undecided, Running, AtStorage
  <1>10. AtTouch(u) => AtTouch(x)
    BY <1>3, <1>4, <1>5 DEF AtTouch, PluginJob, Asks, Undecided, Running, AtStorage
  <1>s. StorySound(x)
    BY <1>3, <1>5, StoryKeeps DEF Sound
  <1>11. Sound(x)
    BY <1>6, <1>7, <1>s DEF Sound
  <1> QED
    BY <1>1, <1>8, <1>9, <1>10, <1>11 DEF ScreenInv, x

LEMMA ScreenInitially == Init => ScreenInv
  <1> SUFFICES ASSUME Init PROVE ScreenInv
    OBVIOUS
  <1> DEFINE x == Now
  <1>1. /\ DOMAIN x = Fields /\ x.b = NoBatch /\ x.e = NoQueue /\ x.i = NoJob
        /\ x.s = [active |-> FALSE, outcome |-> "none", zip |-> FALSE]
        /\ x.t = NoTruth /\ x.open = {} /\ x.work = {}
        /\ DOMAIN x.ui = {"mode", "back", "tab", "list", "sel", "filter", "loading", "psp",
                          "sure", "ask"}
        /\ x.ui.filter = "all" /\ x.view = <<>> /\ x.ui.list = <<>> /\ x.ui.tab = Home
    BY DEF Init, Now, Fields
  <1> HIDE DEF x
  <1>2. Shape(x)
    BY <1>1, CatalogScreenAssumption DEF Shape, NoBatch
  <1>3. NoBatch.phase = "Hidden" /\ ~NoQueue.running /\ NoQueue.left = 0
        /\ ~NoJob.zip /\ ~NoJob.reboot /\ NoJob.st = "Idle"
    BY DEF NoBatch, NoQueue, NoJob
  <1>4. JobSound(x) /\ EssentialSound(x) /\ BatchSound(x) /\ StorageSound(x)
    BY <1>1, <1>3 DEF JobSound, EssentialSound, BatchSound, StorageSound, Running, AtStorage
  <1>5. Unseen(x)
    BY <1>1, <1>3 DEF Unseen, BatchUnseen, QueueUnseen, Running
  <1>6. AtInput(x)
    BY <1>1, <1>3 DEF AtInput, PluginJob, Undecided, AtStorage
  <1>s. StorySound(x)
    <2>1. NoJob.of = 0 /\ ~NoTruth.receipt
      BY DEF NoJob, NoTruth
    <2> QED
      BY <1>1, <1>3, <2>1 DEF StorySound, Running, Asking
  <1>7. pc = "input"
    BY DEF Init
  <1> QED
    BY <1>2, <1>4, <1>5, <1>6, <1>7, <1>s DEF ScreenInv, Sound, x

\* The job of the service ends beside the frames.
LEMMA ServesKeeps ==
  ASSUME ScreenInv, Serves
  PROVE  ScreenInv'
  <1> DEFINE u == Now
             x == Now'
  <1>1. PICK end \in {"Completed", "Failed"}, zip \in BOOLEAN :
          /\ installer.st = "Working"
          /\ zip => end = "Failed" /\ installer.kind \in FileKinds
          /\ LET needs == end = "Completed" /\ installer.kind = "plugin"
                 i == [installer EXCEPT !.st = end, !.zip = zip, !.reboot = needs]
             IN Become(Noted([World EXCEPT !.i = i, !.t.owed = @ \/ needs,
                                           !.faults = IF end = "Failed" THEN @ + 1 ELSE @],
                             installer.of, OutcomeOf(i)))
    BY DEF Serves, JobEnds
  <1> DEFINE needs == end = "Completed" /\ installer.kind = "plugin"
             i == [installer EXCEPT !.st = end, !.zip = zip, !.reboot = needs]
             owed == World.t.owed \/ needs
             n == IF end = "Failed" THEN World.faults + 1 ELSE World.faults
             outcome == OutcomeOf(i)
             of == installer.of
             z == [World EXCEPT !.i = i, !.t.owed = owed, !.faults = n]
             y == Noted(z, of, outcome)
  <1>2. Become(y)
    BY <1>1
  <1>3. /\ Sound(u) /\ Unseen(u) /\ AtInput(u) /\ pc = "input" /\ pc' = "input"
        /\ open' = open /\ ui' = ui /\ work' = work
    BY DEF ScreenInv, Serves
  <1>4. /\ u.b = batch /\ u.e = essential /\ u.i = installer /\ u.s = shown /\ u.t = truth
        /\ u.open = open /\ u.ui = ui /\ u.work = work /\ u.view = view
    BY DEF Now
  <1>5. /\ i.st = end /\ (i.zip <=> zip) /\ (i.reboot <=> needs) /\ i.kind = installer.kind
        /\ i.of = installer.of /\ i.seen = installer.seen /\ DOMAIN i = DOMAIN NoJob
    <2>1. DOMAIN installer = DOMAIN NoJob
      BY <1>3, <1>4 DEF Sound, Shape
    <2> HIDE DEF needs
    <2> QED
      BY <2>1 DEF NoJob
  <1>6. needs <=> (end = "Completed" /\ installer.kind = "plugin")
    OBVIOUS
  <1>o. /\ outcome = OutcomeOf(i) /\ outcome # "none" /\ of = installer.of
    BY <1>5 DEF OutcomeOf
  <1> HIDE DEF i, owed, n, outcome, of, needs
  <1>7. /\ y.b = batch /\ y.e = essential /\ y.i = i /\ y.s = shown /\ y.view = view
        /\ DOMAIN y.t = DOMAIN NoTruth /\ y.t.mixed = truth.mixed
        /\ y.t.app = truth.app /\ y.t.kinds = truth.kinds /\ y.t.receipt = truth.receipt
        /\ of = 0 => y.t.ended = truth.ended
        /\ of # 0 => Becomes(truth.ended, y.t.ended, of, outcome)
    <2>1. DOMAIN truth = DOMAIN NoTruth
      BY <1>3, <1>4 DEF Sound, Shape
    <2>2. /\ z.b = batch /\ z.e = essential /\ z.i = i /\ z.s = shown /\ z.view = view
          /\ DOMAIN z.t = DOMAIN NoTruth /\ z.t.mixed = truth.mixed
          /\ z.t.app = truth.app /\ z.t.kinds = truth.kinds /\ z.t.receipt = truth.receipt
          /\ z.t.ended = truth.ended
          /\ DOMAIN z = {"b", "e", "i", "s", "reboot", "view", "faults", "t"}
      BY <2>1 DEF World, NoTruth
    <2> HIDE DEF z
    <2> DEFINE h == [z.t.ended EXCEPT ![of] = outcome]
    <2>3. Becomes(z.t.ended, h, of, outcome)
      BY DEF Becomes
    <2>4. /\ of = 0 => y = z
          /\ of # 0 => y = [z EXCEPT !.t.ended = h]
      BY DEF Noted
    <2> HIDE DEF y, h
    <2> QED
      BY <2>2, <2>3, <2>4 DEF NoTruth
  <1> DEFINE t == [y.t EXCEPT !.mixed = @ \/ (y.b.phase = "Running" /\ y.e.running)]
  <1>8. /\ DOMAIN t = DOMAIN NoTruth /\ (truth.mixed => t.mixed)
        /\ t.app = truth.app /\ t.kinds = truth.kinds /\ t.receipt = truth.receipt
        /\ of = 0 => t.ended = truth.ended
        /\ of # 0 => Becomes(truth.ended, t.ended, of, outcome)
    <2> HIDE DEF y
    <2> DEFINE mixed == y.t.mixed \/ (y.b.phase = "Running" /\ y.e.running)
    <2>1. t = [y.t EXCEPT !.mixed = mixed] /\ (y.t.mixed => mixed)
      OBVIOUS
    <2> HIDE DEF t, mixed
    <2> QED
      BY <1>7, <2>1 DEF NoTruth
  <1>9. /\ batch' = batch /\ essential' = essential /\ installer' = i /\ shown' = shown
        /\ view' = view
        /\ truth' = t
    BY <1>2, <1>7 DEF Become
  <1> HIDE DEF t, y
  <1>10. /\ DOMAIN x = Fields /\ x.b = u.b /\ x.e = u.e /\ x.i = i /\ x.s = u.s
         /\ x.t = t /\ x.open = u.open /\ x.work = u.work /\ x.ui = u.ui /\ x.view = u.view
    BY <1>3, <1>4, <1>9 DEF Now, Fields
  <1>11. /\ end \in {"Completed", "Failed"} /\ u.i.st = "Working"
         /\ zip => end = "Failed" /\ u.i.kind \in FileKinds
         /\ i.kind = u.i.kind /\ i.of = u.i.of /\ i.seen = u.i.seen
         /\ u.t.mixed => t.mixed
         /\ t.app = u.t.app /\ t.kinds = u.t.kinds /\ t.receipt = u.t.receipt
         /\ u.i.of = 0 => t.ended = u.t.ended
         /\ u.i.of # 0 => Becomes(u.t.ended, t.ended, u.i.of, OutcomeOf(i))
    BY <1>1, <1>4, <1>5, <1>8, <1>o
  <1> HIDE DEF u, x
  <1>12. Shape(x)
    BY <1>3, <1>5, <1>8, <1>10 DEF Sound, Shape
  <1>13. JobSound(x)
    BY <1>4, <1>5, <1>6, <1>10, <1>11 DEF JobSound, FileKinds
  <1>14. EssentialSound(x)
    BY <1>3, <1>5, <1>10, <1>11 DEF Sound, EssentialSound, Running
  <1>15. BatchSound(x)
    BY <1>3, <1>5, <1>10, <1>11 DEF Sound, BatchSound, Running
  <1>16. StorageSound(x)
    BY <1>3, <1>5, <1>10, <1>11 DEF Sound, StorageSound, AtStorage
  <1>17. Unseen(x)
    BY <1>3, <1>10, <1>11 DEF Unseen, BatchUnseen, QueueUnseen, Running
  <1>18. AtInput(x)
    <2>1. ~Undecided(x)
      BY <1>3, <1>10, <1>11 DEF AtInput, Undecided
    <2>2. PluginJob(x) => PluginJob(u)
      BY <1>10, <1>11 DEF PluginJob
    <2>3. (Asks(x) <=> Asks(u)) /\ (AtStorage(x) <=> AtStorage(u))
      BY <1>10 DEF Asks, AtStorage
    <2> QED
      BY <1>3, <1>10, <2>1, <2>2, <2>3 DEF AtInput
  <1>s. StorySound(x)
    <2>1. BatchSound(u) /\ StorySound(u)
      BY <1>3 DEF Sound
    <2>2. OutcomeOf(i) # "none"
      BY <1>o
    <2> QED
      BY <1>10, <1>11, <2>1, <2>2, EndsStory
  <1> QED
    BY <1>3, <1>12, <1>13, <1>14, <1>15, <1>16, <1>17, <1>18, <1>s DEF ScreenInv, Sound, x

\* A frame finds a thread of the screen ended.
LEMMA WorkEndsKeeps ==
  ASSUME ScreenInv, WorkEnds
  PROVE  ScreenInv'
  <1> DEFINE u == Now
  <1>1. Rests(u)
    BY DEF ScreenInv, Rests, WorkEnds
  <1>2. PICK z \in work \ {"update"} :
          LET v == [Now EXCEPT !.work = @ \ {z},
                               !.ui.sure = @ /\ z \notin {"scan", "remove"}]
          IN \E x \in {v} \cup CASE z = "feedback" -> {Closes(v, "report")}
                                 [] z = "data" -> {Closes(v, "data")}
                                 [] OTHER -> {} :
                Show(x, "input")
    BY DEF WorkEnds
  <1> DEFINE sure == u.ui.sure /\ z \notin {"scan", "remove"}
             v == [u EXCEPT !.work = @ \ {z}, !.ui.sure = sure]
  <1>3. \E x \in {v, Closes(v, "report"), Closes(v, "data")} : Show(x, "input")
    BY <1>2
  <1> HIDE DEF u, sure
  <1>4. Same(u, v)
    <2>1. /\ DOMAIN v = Fields /\ DOMAIN v.ui = DOMAIN u.ui /\ v.ui.filter = u.ui.filter
          /\ v.view = u.view /\ v.ui.list = u.ui.list /\ v.ui.tab = u.ui.tab
          /\ v.open = u.open /\ v.work = u.work \ {z}
          /\ v.b = u.b /\ v.e = u.e /\ v.i = u.i /\ v.s = u.s /\ v.t = u.t /\ v.reboot = u.reboot
      BY <1>1 DEF Rests, Sound, Shape, Fields
    <2> HIDE DEF v
    <2> QED
      BY <1>1, <2>1, LooksSame DEF Rests, Sound, Shape, AtStorage
  <1> HIDE DEF v
  <1>5. Same(v, Closes(v, "report")) /\ Same(v, Closes(v, "data"))
    BY <1>4, ClosesQuiet DEF Quiet, Same
  <1>6. Rests(v) /\ Rests(Closes(v, "report")) /\ Rests(Closes(v, "data"))
    BY <1>1, <1>4, <1>5, SameRests
  <1> QED
    BY <1>3, <1>6, ShowKeeps DEF Rests

\* The keyboard is left, and what was typed is searched for.
LEMMA KeyboardEndsKeeps ==
  ASSUME ScreenInv, KeyboardEnds
  PROVE  ScreenInv'
  <1> DEFINE u == Now
             c == Closes(u, "keyboard")
  <1>1. Rests(u)
    BY DEF ScreenInv, Rests, KeyboardEnds
  <1>2. PICK x \in {c} \cup Filters(c, "some") \cup Filters(c, "all") : Show(x, "input")
    BY DEF KeyboardEnds
  <1>3. Quiet(u, c)
    BY <1>1, ClosesQuiet DEF Rests, Sound
  <1> HIDE DEF u, c
  <1>4. Quiet(u, x)
    BY <1>2, <1>3, FiltersQuiet, QuietTrans DEF Quiet, Same
  <1>5. Rests(x)
    BY <1>1, <1>4, SameRests DEF Quiet
  <1> QED
    BY <1>2, <1>5, ShowKeeps DEF Rests

LEMMA PressedKeeps ==
  ASSUME ScreenInv, NEW layer, NEW worlds, Pressed(layer, worlds),
         \A x \in worlds : ByPress(layer, Now, x)
  PROVE  ScreenInv'
  <1>1. PICK x \in worlds : Show(x, "touch")
    BY DEF Pressed
  <1>2. Rests(Now) /\ Answers(ButtonOrder, layer, Now) /\ ByPress(layer, Now, x)
    BY DEF ScreenInv, Rests, Pressed
  <1>3. Sound(x) /\ Unseen(x) /\ AtTouch(x)
    BY <1>2, PressStep
  <1> QED
    BY <1>1, <1>3, ShowKeeps

\* The end of a frame, and the main loop after it.
LEMMA LoopKeeps ==
  ASSUME NEW worlds, \A x \in worlds : Flows(x),
         NEW u \in Then(Then(worlds, FrameEnd), MainLoop), Show(u, "input")
  PROVE  ScreenInv'
  <1>1. PICK x \in worlds : u \in Then(FrameEnd(x), MainLoop)
    BY DEF Then
  <1>2. PICK y \in FrameEnd(x) : u \in MainLoop(y)
    BY <1>1 DEF Then
  <1>3. Rests(u)
    BY <1>1, <1>2, FrameEndFlows, MainLoopRests
  <1> QED
    BY <1>3, ShowKeeps DEF Rests

LEMMA BetweenIsTouch ==
  ASSUME ScreenInv, pc # "off"
  PROVE  Sound(Now) /\ Unseen(Now) /\ AtTouch(Now)
  BY InputIsTouch DEF ScreenInv

LEMMA TouchedKeeps ==
  ASSUME ScreenInv, NEW layer, NEW worlds, Touched(layer, worlds),
         \A x \in worlds : ByTouch(layer, Now, x)
  PROVE  ScreenInv'
  <1>1. PICK u \in Then(Then(worlds, FrameEnd), MainLoop) : Show(u, "input")
    BY DEF Touched
  <1>2. /\ Sound(Now) /\ Unseen(Now) /\ AtTouch(Now)
        /\ Answers(TouchOrder, layer, Now)
    BY BetweenIsTouch DEF Touched
  <1>3. \A x \in worlds : Flows(x)
    BY <1>2, TouchStep
  <1> QED
    BY <1>1, <1>3, LoopKeeps

LEMMA NoTouchKeeps ==
  ASSUME ScreenInv, NoTouch
  PROVE  ScreenInv'
  <1>1. PICK u \in Then(FrameEnd(Now), MainLoop) : Show(u, "input")
    BY DEF NoTouch
  <1>2. Flows(Now)
    BY BetweenIsTouch, TouchIsPoll DEF NoTouch, Flows
  <1>3. PICK y \in FrameEnd(Now) : u \in MainLoop(y)
    BY <1>1 DEF Then
  <1>4. Rests(u)
    BY <1>2, <1>3, FrameEndFlows, MainLoopRests
  <1> QED
    BY <1>1, <1>4, ShowKeeps DEF Rests

LEMMA KeyboardStaysKeeps ==
  ASSUME ScreenInv, KeyboardStays
  PROVE  ScreenInv'
  <1>1. PICK u \in MainLoop(Now) : Show(u, "input")
    BY DEF KeyboardStays
  <1>2. Flows(Now)
    BY BetweenIsTouch, TouchIsPoll DEF KeyboardStays, Flows
  <1>3. Rests(u)
    BY <1>1, <1>2, MainLoopRests
  <1> QED
    BY <1>1, <1>3, ShowKeeps DEF Rests

LEMMA ScreenNext ==
  ASSUME ScreenInv, [Next]_vars
  PROVE  ScreenInv'
  <1> USE DEF ByPress, ByTouch
  <1>1. CASE PressData
    BY <1>1, PressedKeeps DEF PressData
  <1>2. CASE PressStorageMenu
    BY <1>2, PressedKeeps DEF PressStorageMenu
  <1>3. CASE PressSavedZip
    BY <1>3, PressedKeeps DEF PressSavedZip
  <1>4. CASE PressArchive
    BY <1>4, PressedKeeps DEF PressArchive
  <1>5. CASE PressReboot
    BY <1>5, PressedKeeps DEF PressReboot
  <1>6. CASE PressPlugin
    BY <1>6, PressedKeeps DEF PressPlugin
  <1>7. CASE PressEssential
    BY <1>7, PressedKeeps DEF PressEssential
  <1>8. CASE PressPsp
    BY <1>8, PressedKeeps DEF PressPsp
  <1>9. CASE PressWebQr
    BY <1>9, PressedKeeps DEF PressWebQr
  <1>10. CASE PressProtection
    BY <1>10, PressedKeeps DEF PressProtection
  <1>11. CASE PressTheme
    BY <1>11, PressedKeeps DEF PressTheme
  <1>12. CASE PressFilter
    BY <1>12, PressedKeeps DEF PressFilter
  <1>13. CASE PressSettings
    BY <1>13, PressedKeeps DEF PressSettings
  <1>14. CASE PressInstallAll
    BY <1>14, PressedKeeps DEF PressInstallAll
  <1>15. CASE PressRequest
    BY <1>15, PressedKeeps DEF PressRequest
  <1>16. CASE PressReport
    BY <1>16, PressedKeeps DEF PressReport
  <1>17. CASE PressNews
    BY <1>17, PressedKeeps DEF PressNews
  <1>18. CASE PressProgress
    BY <1>18, PressedKeeps DEF PressProgress
  <1>19. CASE PressCatalog
    BY <1>19, PressedKeeps DEF PressCatalog
  <1>20. CASE PressChord
    BY <1>20, PressedKeeps DEF PressChord
  <1>21. CASE PressKey
    BY <1>21, PressedKeeps DEF PressKey
  <1>22. CASE TouchArchive
    BY <1>22, TouchedKeeps DEF TouchArchive
  <1>23. CASE TouchProtection
    BY <1>23, TouchedKeeps DEF TouchProtection
  <1>24. CASE TouchReport
    BY <1>24, TouchedKeeps DEF TouchReport
  <1>25. CASE TouchData
    BY <1>25, TouchedKeeps DEF TouchData
  <1>26. CASE TouchStorageMenu
    BY <1>26, TouchedKeeps DEF TouchStorageMenu
  <1>27. CASE TouchSavedZip
    BY <1>27, TouchedKeeps DEF TouchSavedZip
  <1>28. CASE TouchWebQr
    BY <1>28, TouchedKeeps DEF TouchWebQr
  <1>29. CASE TouchFilter
    BY <1>29, TouchedKeeps DEF TouchFilter
  <1>30. CASE TouchReboot
    BY <1>30, TouchedKeeps DEF TouchReboot
  <1>31. CASE TouchPlugin
    BY <1>31, TouchedKeeps DEF TouchPlugin
  <1>32. CASE TouchEssential
    BY <1>32, TouchedKeeps DEF TouchEssential
  <1>33. CASE TouchPsp
    BY <1>33, TouchedKeeps DEF TouchPsp
  <1>34. CASE TouchTheme
    BY <1>34, TouchedKeeps DEF TouchTheme
  <1>35. CASE TouchNews
    BY <1>35, TouchedKeeps DEF TouchNews
  <1>36. CASE TouchInstallAll
    BY <1>36, TouchedKeeps DEF TouchInstallAll
  <1>37. CASE TouchProgress
    BY <1>37, TouchedKeeps DEF TouchProgress
  <1>38. CASE TouchSettings
    BY <1>38, TouchedKeeps DEF TouchSettings
  <1>39. CASE TouchRequest
    BY <1>39, TouchedKeeps DEF TouchRequest
  <1>40. CASE TouchCatalog
    BY <1>40, TouchedKeeps DEF TouchCatalog
  <1>41. CASE NoTouch
    BY <1>41, NoTouchKeeps
  <1>42. CASE KeyboardStays \/ KeyboardEnds
    BY <1>42, KeyboardStaysKeeps, KeyboardEndsKeeps
  <1>43. CASE WorkEnds \/ Serves
    BY <1>43, WorkEndsKeeps, ServesKeeps
  <1>44. CASE UNCHANGED vars
    BY <1>44 DEF vars, jobVars, ScreenInv, Now
  <1> QED
    BY <1>1, <1>2, <1>3, <1>4, <1>5, <1>6, <1>7, <1>8, <1>9, <1>10, <1>11, <1>12, <1>13,
       <1>14, <1>15, <1>16, <1>17, <1>18, <1>19, <1>20, <1>21, <1>22, <1>23, <1>24, <1>25,
       <1>26, <1>27, <1>28, <1>29, <1>30, <1>31, <1>32, <1>33, <1>34, <1>35, <1>36, <1>37,
       <1>38, <1>39, <1>40, <1>41, <1>42, <1>43, <1>44 DEF Next

\* No thread removes saved archives while a job downloads or extracts: startStorageOperation
\* and closeStorageMenu leave no way to start one, by any dialog, queue or poll, until the
\* removal has ended.
THEOREM RemovalIsAlone == Spec => []StorageAlone
  <1>1. Init => ScreenInv
    BY ScreenInitially
  <1>2. ScreenInv /\ [Next]_vars => ScreenInv'
    BY ScreenNext
  <1>3. ScreenInv => StorageAlone
    BY DEF ScreenInv, Sound, StorageSound, StorageAlone, Now
  <1> QED
    BY <1>1, <1>2, <1>3, PTL DEF Spec

\* A batch that runs has the job of its step, or that job's result, or an archive just
\* decided about: no step of installAllStartNextStep and installAllTryAdvanceFromProgress,
\* and no dialog over them, leaves it waiting for a job that does not exist.
THEOREM QueueHasJob == Spec => []BatchHasJob
  <1>1. Init => ScreenInv
    BY ScreenInitially
  <1>2. ScreenInv /\ [Next]_vars => ScreenInv'
    BY ScreenNext
  <1>3. ScreenInv => BatchHasJob
    <2> SUFFICES ASSUME ScreenInv, batch.phase = "Running", ~truth.mixed
                 PROVE  \/ installer.of = Step(batch) /\ installer.st # "Idle"
                        \/ batch.waiting /\ batch.resolved
      BY DEF BatchHasJob
    <2>1. Now.b = batch /\ Now.i = installer /\ Now.t = truth
      BY DEF Now
    <2>2. BatchSound(Now)
      BY DEF ScreenInv, Sound
    <2> QED
      BY <2>1, <2>2 DEF BatchSound, Running
  <1> QED
    BY <1>1, <1>2, <1>3, PTL DEF Spec

\* Every entry of a shown summary is how the job of its step ended: a result told too early,
\* twice, or to a queue that has gone on would stand in another row's place.
THEOREM ReportIsTrue == Spec => []ResultsTrue
  <1>1. Init => ScreenInv
    BY ScreenInitially
  <1>2. ScreenInv /\ [Next]_vars => ScreenInv'
    BY ScreenNext
  <1>3. ScreenInv => ResultsTrue
    <2>1. ScreenInv => StorySound(Now)
      BY DEF ScreenInv, Sound
    <2>2. Now.b = batch /\ Now.t = truth
      BY DEF Now
    <2> QED
      BY <2>1, <2>2 DEF StorySound, ResultsTrue
  <1> QED
    BY <1>1, <1>2, <1>3, PTL DEF Spec

\* The receipt of a revision is written for packs of files that are all installed, and for
\* one at least: no pack that was refused, failed or was cancelled, and no archive that was
\* decided about, leaves installAllRevisionFilesSucceeded_ standing.
THEOREM ReceiptIsHonest == Spec => []RevisionHonest
  <1>1. Init => ScreenInv
    BY ScreenInitially
  <1>2. ScreenInv /\ [Next]_vars => ScreenInv'
    BY ScreenNext
  <1>3. ScreenInv => RevisionHonest
    <2>1. ScreenInv => StorySound(Now)
      BY DEF ScreenInv, Sound
    <2>2. Now.t = truth
      BY DEF Now
    <2> QED
      BY <2>1, <2>2 DEF StorySound, Honest, RevisionHonest
  <1> QED
    BY <1>1, <1>2, <1>3, PTL DEF Spec

-----------------------------------------------------------------------------
(* The restart a plugin needs *)

\* Nothing happened that RebootKept excepts.
Clean(u) == ~u.t.mixed /\ ~u.t.dropped

\* The job of a plugin that was chosen by hand: no queue will hear of its end.
HandJob(u) == PluginJob(u) /\ ~Running(u) /\ ~u.e.running

\* The dialogs that lead to a link or to the wizard, and the setup one of them asks for.
Prompts == {"savedZip", "psp", "plugin"}
SetUp(u) == u.ui.tab # Psp \/ u.ui.psp

\* A restart that is owed has somebody who will ask for it.  A queue that has not yet
\* begun, a result the screen was told of and a wizard that asks are nobody; and a plugin
\* chosen by hand is never under a report, nor beside a setup that leads to the wizard.
Due(u) ==
    Clean(u) =>
      /\ u.t.owed => u.reboot \/ u.e.running \/ u.b.plugin \/ u.i.reboot
      /\ u.t.owed /\ u.e.running /\ ~u.e.begun => u.reboot \/ u.b.plugin \/ u.i.reboot
      /\ u.i.seen /\ PluginJob(u) => u.reboot \/ u.b.plugin
      /\ u.b.plugin => u.b.phase \in {"Running", "Summary"}
      /\ HandJob(u) => u.b.phase # "Summary" /\ "psp" \notin u.open
      /\ Running(u) /\ u.b.waiting /\ PluginJob(u) => u.e.running

\* A plugin is consented to only where the setup was made, and so not beside it.
Windows(u) ==
    /\ ~({"psp", "plugin"} \subseteq u.open)
    /\ "plugin" \in u.open => SetUp(u)

\* Where the buttons are read, the progress dialog of a plugin chosen by hand is up; where
\* the finger is, it has just been chosen, or a queue of its own was left for the wizard.
Attended(u) == Clean(u) /\ HandJob(u) => u.s.active
Handy(u) ==
    Clean(u) /\ HandJob(u) =>
      \/ u.s.active
      \/ /\ SetUp(u)
         /\ u.i.st = "Working" \/ (Wizard(u) /\ u.open \cap Prompts = {})

Heeds(u) == Sound(u) /\ Due(u) /\ Windows(u) /\ Handy(u)

\* A handler turned u into x.
Heeded(u, x) == Due(x) /\ Windows(x) /\ (Attended(u) => Handy(x))

\* A step that leaves alone whatever may ask for the restart, and opens no prompt.
NoPrompt(u, x) == x.open \cap Prompts \subseteq u.open /\ (SetUp(u) => SetUp(x))
SameCare(u, x) ==
    /\ x.e = u.e /\ x.i = u.i /\ x.s = u.s /\ x.reboot = u.reboot
    /\ x.b.phase = u.b.phase /\ x.b.waiting = u.b.waiting /\ x.b.plugin = u.b.plugin
    /\ x.t.mixed = u.t.mixed /\ SameDebt(u.t, x.t)
Calm(u, x) == SameCare(u, x) /\ NoPrompt(u, x)

LEMMA SameCares ==
  ASSUME NEW u, NEW x, Same(u, x)
  PROVE  SameCare(u, x)
  BY DEF Same, SameCare, Alike, SameDebt

LEMMA CalmKeeps ==
  ASSUME NEW u, NEW x, Calm(u, x)
  PROVE  /\ Due(u) => Due(x)
         /\ Windows(u) => Windows(x)
         /\ Handy(u) => Handy(x)
         /\ Attended(u) <=> Attended(x)
  <1>1. (Clean(x) <=> Clean(u)) /\ (PluginJob(x) <=> PluginJob(u)) /\ (HandJob(x) <=> HandJob(u))
        /\ (Running(x) <=> Running(u)) /\ (Wizard(x) <=> Wizard(u))
    BY DEF Calm, SameCare, SameDebt, Clean, PluginJob, HandJob, Running, Wizard
  <1>2. Due(u) => Due(x)
    BY <1>1 DEF Calm, SameCare, SameDebt, NoPrompt, Prompts, Due
  <1>3. Windows(u) => Windows(x)
    BY DEF Calm, NoPrompt, Prompts, Windows
  <1>4. Handy(u) => Handy(x)
    BY <1>1 DEF Calm, SameCare, NoPrompt, Handy
  <1>5. Attended(u) <=> Attended(x)
    BY <1>1 DEF Calm, SameCare, Attended
  <1> QED
    BY <1>2, <1>3, <1>4, <1>5

LEMMA HandyWhenAttended ==
  ASSUME NEW u, Attended(u)
  PROVE  Handy(u)
  BY DEF Attended, Handy

LEMMA CalmHeeded ==
  ASSUME NEW u, Heeds(u), NEW x, Calm(u, x)
  PROVE  Heeded(u, x) /\ (Sound(x) => Heeds(x))
  BY CalmKeeps, HandyWhenAttended DEF Heeds, Heeded

LEMMA AfterCalm ==
  ASSUME NEW u, NEW v, Calm(u, v), NEW x, Heeded(v, x)
  PROVE  Heeded(u, x)
  BY CalmKeeps DEF Heeded

LEMMA BeforeCalm ==
  ASSUME NEW u, NEW v, Heeded(u, v), NEW x, Calm(v, x)
  PROVE  Heeded(u, x)
  BY CalmKeeps DEF Heeded

\* A step that keeps the queues and may close the result of a job, or change its state.
LEMMA JobHeeded ==
  ASSUME NEW u, Heeds(u), NEW x, Beside(u, x), x.e = u.e, x.reboot = u.reboot,
         x.b.phase = u.b.phase, x.b.waiting = u.b.waiting, x.b.plugin = u.b.plugin,
         x.t.owed = u.t.owed, u.t.mixed => x.t.mixed, u.t.dropped => x.t.dropped,
         Clean(x) /\ PluginJob(x) => PluginJob(u),
         Clean(x) /\ u.i.reboot => x.i.reboot \/ u.reboot \/ u.b.plugin,
         Clean(x) /\ PluginJob(x) /\ x.i.seen => u.i.seen
  PROVE  Heeded(u, x)
  <1>1. (Clean(x) => Clean(u)) /\ (Clean(x) /\ HandJob(x) => HandJob(u))
        /\ (Running(x) <=> Running(u)) /\ x.open = u.open /\ (SetUp(x) <=> SetUp(u))
        /\ x.s = u.s
    BY DEF Clean, HandJob, Running, Beside, SetUp
  <1>2. Due(x)
    BY <1>1 DEF Heeds, Due
  <1>3. Windows(x)
    BY <1>1 DEF Heeds, Windows
  <1>4. Attended(u) => Handy(x)
    BY <1>1 DEF Attended, Handy
  <1> QED
    BY <1>2, <1>3, <1>4 DEF Heeded

\* A link is started only where no plugin chosen by hand has a result to lose.
Free(u) == Clean(u) /\ HandJob(u) => ~Takes(u)

LEMMA LinkHeeded ==
  ASSUME NEW u, Heeds(u), Free(u), NEW kind \in LinkKinds,
         kind = "plugin" => "psp" \notin u.open /\ SetUp(u), NEW x \in Link(u, kind)
  PROVE  Heeded(u, x) /\ Shape(x) /\ x.open = u.open
  <1> DEFINE mixed == u.t.mixed \/ (Takes(u) /\ (u.b.phase = "Running" \/ u.e.running))
             dropped == u.t.dropped \/ (Takes(u) /\ kind = "plugin" /\ u.b.phase = "Summary")
             v == [u EXCEPT !.t.mixed = mixed, !.t.dropped = dropped]
  <1>1. x \in Refusals(v) \/ (Takes(u) /\ x = Starts(v, kind, 0))
    BY DEF Link
  <1>2. /\ mixed <=> (u.t.mixed \/ (Takes(u) /\ (Running(u) \/ u.e.running)))
        /\ dropped <=> (u.t.dropped \/ (Takes(u) /\ kind = "plugin" /\ u.b.phase = "Summary"))
    BY DEF Running
  <1> HIDE DEF mixed, dropped
  <1>3. /\ Beside(u, v) /\ v.b = u.b /\ v.e = u.e /\ v.i = u.i /\ v.reboot = u.reboot
        /\ v.t.mixed = mixed /\ v.t.dropped = dropped /\ v.t.owed = u.t.owed
    BY DEF Heeds, Sound, Shape, Beside, Fields, NoTruth
  <1> HIDE DEF v
  <1>4. /\ Beside(u, x) /\ x.b = u.b /\ x.e = u.e /\ x.reboot = u.reboot
        /\ x.t.mixed = mixed /\ x.t.dropped = dropped /\ x.t.owed = u.t.owed
        /\ \/ x.i = u.i
           \/ /\ Takes(u) /\ ~x.i.reboot
              /\ PluginJob(x) => kind = "plugin" /\ x.i.st = "Working" /\ ~x.i.seen
    <2>1. CASE x \in Refusals(v)
      <3>1. /\ Beside(v, x) /\ x.b = v.b /\ x.e = v.e /\ x.t = v.t /\ x.reboot = v.reboot
            /\ x.i = v.i \/ (Takes(v) /\ FailedAtOnce(x.i))
        BY <1>3, <2>1, RefusalsFacts DEF Beside
      <3> QED
        BY <1>3, <3>1 DEF Beside, Takes, FailedAtOnce, PluginJob
    <2>2. CASE Takes(u) /\ x = Starts(v, kind, 0)
      <3>1. /\ Beside(v, x) /\ x.b = v.b /\ x.e = v.e /\ x.t = v.t /\ x.reboot = v.reboot
            /\ x.i.st = "Working" /\ x.i.kind = kind /\ ~x.i.reboot /\ ~x.i.seen
        BY <1>3, <2>2, StartsFacts DEF Beside
      <3> QED
        BY <1>3, <2>2, <3>1 DEF Beside, PluginJob
    <2> QED
      BY <1>1, <2>1, <2>2
  <1>5. CASE x.i = u.i
    <2>1. Heeded(u, x)
      BY <1>2, <1>4, <1>5, JobHeeded DEF PluginJob
    <2> QED
      BY <1>4, <2>1 DEF Beside
  <1>6. CASE /\ Takes(u) /\ ~x.i.reboot
             /\ PluginJob(x) => kind = "plugin" /\ x.i.st = "Working" /\ ~x.i.seen
    <2>1. /\ Clean(x) => /\ Clean(u) /\ ~Running(u) /\ ~u.e.running
                         /\ ~(kind = "plugin" /\ u.b.phase = "Summary")
          /\ (Running(x) <=> Running(u)) /\ x.open = u.open /\ (SetUp(x) <=> SetUp(u))
          /\ HandJob(x) => PluginJob(x)
      BY <1>2, <1>4, <1>6 DEF Clean, Running, Beside, SetUp, HandJob
    <2>2. Clean(x) => ~u.i.reboot
      <3>1. u.i.reboot => PluginJob(u)
        BY DEF Heeds, Sound, JobSound, PluginJob
      <3> QED
        BY <1>6, <2>1, <3>1 DEF Free, HandJob
    <2>3. Due(x)
      BY <1>4, <1>6, <2>1, <2>2 DEF Heeds, Due
    <2>4. Windows(x)
      BY <2>1 DEF Heeds, Windows
    <2>5. Handy(x)
      BY <1>6, <2>1 DEF Handy
    <2> QED
      BY <1>4, <2>3, <2>4, <2>5 DEF Heeded, Beside
  <1> QED
    BY <1>4, <1>5, <1>6

\* The progress dialog: what it closes is not the last that knows of a restart.
LEMMA ProgressHeeded ==
  ASSUME NEW u, Heeds(u), NEW x \in Progress(u)
  PROVE  Heeded(u, x)
  <1>1. \/ x \in Report(u)
        \/ \E keep \in BOOLEAN : x \in ResolveRecovery(u, keep)
        \/ u.i.zip /\ x = Recovers(u)
        \/ x \in PausedOr(u) \cup Cancelled(u)
        \/ x = Close(u)
    BY DEF Progress
  <1> Shape(u)
    BY DEF Heeds, Sound
  <1>0. Heeded(u, u)
    BY CalmHeeded DEF Calm, SameCare, SameDebt, NoPrompt
  <1>2. CASE x \in Report(u)
    <2>1. x = u \/ x \in Hires(u, "report")
      BY <1>2 DEF Report
    <2>2. Same(u, x) /\ NoPrompt(u, x)
      BY <2>1, HiresSame, SameSelf DEF Hires, Shape, Fields, NoPrompt, SetUp
    <2> QED
      BY <2>2, SameCares, CalmHeeded DEF Calm
  <1>3. ASSUME NEW keep \in BOOLEAN, x \in ResolveRecovery(u, keep)
        PROVE  Heeded(u, x)
    <2>1. /\ Beside(u, x) /\ x.e = u.e /\ x.reboot = u.reboot /\ x.t = u.t
          /\ x.b.phase = u.b.phase /\ x.b.waiting = u.b.waiting /\ x.b.plugin = u.b.plugin
          /\ \/ x.i = u.i
             \/ Running(u) /\ u.b.waiting /\ ~u.b.resolved /\ x.i = NoJob
      BY <1>3, ResolveFacts
    <2>2. x.i # u.i /\ Clean(x) => ~u.i.reboot
      BY <2>1 DEF Clean, Heeds, Sound, BatchSound, JobSound
    <2> QED
      BY <2>1, <2>2, JobHeeded DEF PluginJob, NoJob
  <1>4. CASE u.i.zip /\ x = Recovers(u)
    <2>1. /\ Beside(u, x) /\ x.b = u.b /\ x.e = u.e /\ x.i = NoJob /\ x.t = u.t
          /\ x.reboot = u.reboot
      BY <1>4 DEF Recovers, Shape, Beside, Fields
    <2>2. ~u.i.reboot
      BY <1>4 DEF Heeds, Sound, JobSound
    <2> QED
      BY <2>1, <2>2, JobHeeded DEF PluginJob, NoJob
  <1>5. CASE x \in PausedOr(u)
    <2>1. /\ Beside(u, x) /\ x.b = u.b /\ x.e = u.e /\ x.t = u.t /\ x.reboot = u.reboot
          /\ x.i.kind = u.i.kind /\ x.i.seen = u.i.seen /\ x.i.reboot = u.i.reboot
          /\ \/ x.i = u.i
             \/ u.i.st \in {"Working", "Paused"} /\ x.i.st \in {"Working", "Paused"}
      BY <1>5 DEF PausedOr, Shape, Beside, Fields, NoJob
    <2>2. PluginJob(x) => PluginJob(u)
      BY <2>1 DEF PluginJob
    <2> QED
      BY <2>1, <2>2, JobHeeded
  <1>6. CASE x = Noted([u EXCEPT !.i.st = "Cancelled"], u.i.of, "cancelled")
    <2> DEFINE v == [u EXCEPT !.i.st = "Cancelled"]
               of == u.i.of
    <2>1. /\ Beside(u, v) /\ v.b = u.b /\ v.e = u.e /\ v.t = u.t /\ v.reboot = u.reboot
          /\ v.i.kind = u.i.kind /\ v.i.seen = u.i.seen
          /\ v.i.reboot = u.i.reboot /\ v.i.st = "Cancelled"
      BY DEF Shape, Beside, Fields, NoJob
    <2>2. x = Noted(v, of, "cancelled")
      BY <1>6
    <2> HIDE DEF v, of
    <2>3. /\ Beside(v, x) /\ x.b = v.b /\ x.e = v.e /\ x.i = v.i /\ x.reboot = v.reboot
          /\ x.t.mixed = v.t.mixed
      BY <2>1, <2>2, NotedFacts DEF Beside
    <2>4. SameDebt(v.t, x.t)
      BY <2>1, <2>2 DEF Noted, Beside, Shape, Fields, NoTruth, SameDebt
    <2>5. Beside(u, x) /\ ~PluginJob(x)
      BY <2>1, <2>3 DEF Beside, PluginJob
    <2> QED
      BY <2>1, <2>3, <2>4, <2>5, JobHeeded DEF SameDebt
  <1>7. CASE x = Close(u)
    <2> DEFINE mixed == u.t.mixed \/ (u.i.st \in Terminal /\ ~u.i.seen)
               v == [u EXCEPT !.t.mixed = mixed]
    <2>1. x = Ack(v)
      BY <1>7 DEF Close
    <2>2. mixed <=> (u.t.mixed \/ (u.i.st \in Terminal /\ ~u.i.seen))
      OBVIOUS
    <2> HIDE DEF mixed
    <2>3. /\ Beside(u, v) /\ v.b = u.b /\ v.e = u.e /\ v.i = u.i /\ v.t.mixed = mixed
          /\ v.reboot = u.reboot /\ SameDebt(u.t, v.t)
      BY DEF Shape, Beside, Fields, NoTruth, SameDebt
    <2> HIDE DEF v
    <2>4. /\ Beside(v, x) /\ x.b = v.b /\ x.e = v.e /\ x.t = v.t /\ x.reboot = v.reboot
          /\ x.i = v.i \/ (x.i = NoJob /\ v.i.st \in Terminal)
      BY <2>1, <2>3, AckFacts DEF Beside
    <2>5. /\ Beside(u, x) /\ x.b = u.b /\ x.e = u.e /\ x.reboot = u.reboot
          /\ x.t.mixed = mixed /\ SameDebt(u.t, x.t)
          /\ x.i = u.i \/ (x.i = NoJob /\ u.i.st \in Terminal)
      BY <2>3, <2>4 DEF Beside, SameDebt
    <2>6. x.i # u.i /\ Clean(x) /\ u.i.reboot => u.reboot \/ u.b.plugin
      <3>1. u.i.reboot => PluginJob(u)
        BY DEF Heeds, Sound, JobSound, PluginJob
      <3> QED
        BY <2>2, <2>5, <3>1 DEF Clean, SameDebt, Heeds, Due
    <2> QED
      BY <2>2, <2>5, <2>6, JobHeeded DEF PluginJob, NoJob, SameDebt
  <1>8. x \in Cancelled(u) => x = u \/ x = Noted([u EXCEPT !.i.st = "Cancelled"], u.i.of, "cancelled")
    BY DEF Cancelled
  <1> QED
    BY <1>0, <1>1, <1>2, <1>3, <1>4, <1>5, <1>6, <1>7, <1>8

-----------------------------------------------------------------------------
(* The restart: what leaves it alone *)

LEMMA CalmTrans ==
  ASSUME NEW u, NEW v, NEW x, Calm(u, v), Calm(v, x)
  PROVE  Calm(u, x)
  BY DEF Calm, SameCare, SameDebt, NoPrompt

LEMMA CalmSelf ==
  ASSUME NEW u
  PROVE  Calm(u, u)
  BY DEF Calm, SameCare, SameDebt, NoPrompt

\* The dialogs but those, and the page beneath: its tab and its setup are what counts.
LEMMA LooksCalm ==
  ASSUME NEW u, NEW x, Same(u, x), NEW d, d \notin Prompts, x.open \subseteq u.open \cup {d},
         x.ui.tab = u.ui.tab, x.ui.psp = u.ui.psp
  PROVE  Calm(u, x)
  BY SameCares DEF Calm, NoPrompt, SetUp

LEMMA OpensCalm ==
  ASSUME NEW u, Shape(u), NEW d \in Dialogs, d \notin {"storage", "essential"} \cup Prompts
  PROVE  Calm(u, Opens(u, d))
  <1>1. Same(u, Opens(u, d)) /\ Opens(u, d).ui = u.ui
    BY OpensQuiet DEF Quiet
  <1>2. Opens(u, d).open = u.open \cup {d}
    BY DEF Opens, Shape, Fields
  <1> QED
    BY <1>1, <1>2, LooksCalm

LEMMA ClosesCalm ==
  ASSUME NEW u, Shape(u), NEW d, d # "storage"
  PROVE  Calm(u, Closes(u, d)) /\ Closes(u, d).open = u.open \ {d}
  <1>1. Same(u, Closes(u, d)) /\ Closes(u, d).ui = u.ui
    BY ClosesQuiet DEF Quiet
  <1>2. Closes(u, d).open = u.open \ {d}
    BY DEF Closes, Shape, Fields
  <1> QED
    BY <1>1, <1>2, LooksCalm DEF Prompts

LEMMA HiresCalm ==
  ASSUME NEW u, Shape(u), NEW z, z # "remove", NEW x \in Hires(u, z)
  PROVE  Calm(u, x)
  <1>1. Same(u, x) /\ x.ui = u.ui
    BY HiresQuiet DEF Quiet
  <1>2. x.open = u.open
    BY DEF Hires, Shape, Fields
  <1> QED
    BY <1>1, <1>2, SameCares DEF Calm, NoPrompt, SetUp

LEMMA NoticesCalm ==
  ASSUME NEW u, Shape(u),
         NEW x \in ArchiveNotice(u) \cup WebQr(u) \cup Protection(u) \cup ThemePicker(u)
                   \cup News(u) \cup FilterButton(u) \cup OpenReport(u) \cup OpenRequest(u)
                   \cup DataMenu(u) \cup OpenData(u) \cup ReportForm(u) \cup DataRequest(u)
                   \cup Report(u)
  PROVE  Calm(u, x)
  <1>1. CASE x \in ArchiveNotice(u) \cup WebQr(u) \cup Protection(u) \cup ThemePicker(u)
                   \cup News(u)
    BY <1>1, ClosesCalm DEF ArchiveNotice, WebQr, Protection, ThemePicker, News
  <1>2. CASE x \in FilterButton(u) \cup OpenReport(u) \cup OpenRequest(u)
    BY <1>2, OpensCalm DEF FilterButton, OpenReport, OpenRequest, Dialogs, Prompts
  <1>3. CASE x \in DataMenu(u) \cup OpenData(u)
    <2>1. \/ x = u \/ x = Closes(u, "data") \/ x \in Hires(u, "data")
          \/ x = Opens(u, "data") \/ x \in Hires(Opens(u, "data"), "data")
      BY <1>3 DEF DataMenu, OpenData, DataWork
    <2>2. Calm(u, Opens(u, "data")) /\ Shape(Opens(u, "data"))
      BY OpensCalm, OpensQuiet DEF Dialogs, Prompts, Quiet, Same
    <2> QED
      BY <2>1, <2>2, CalmSelf, CalmTrans, ClosesCalm, HiresCalm
  <1>4. CASE x \in ReportForm(u) \cup DataRequest(u) \cup Report(u)
    <2> DEFINE c == Closes(u, "request")
    <2>1. \/ x = u \/ x = Closes(u, "report") \/ x = Opens(u, "keyboard")
          \/ x \in Hires(u, "feedback") \cup Hires(u, "report")
          \/ x = c \/ x \in Hires(c, "request")
      BY <1>4 DEF ReportForm, DataRequest, Report
    <2>2. Calm(u, c) /\ Shape(c)
      BY ClosesCalm, ClosesQuiet DEF Quiet, Same
    <2> HIDE DEF c
    <2>3. Calm(u, Opens(u, "keyboard"))
      BY OpensCalm DEF Dialogs, Prompts
    <2> QED
      BY <2>1, <2>2, <2>3, CalmSelf, CalmTrans, ClosesCalm, HiresCalm
  <1> QED
    BY <1>1, <1>2, <1>3, <1>4

LEMMA RebuiltCalm ==
  ASSUME NEW u, Shape(u), NEW x \in Rebuilt(u)
  PROVE  Calm(u, x)
  <1>1. Same(u, x) /\ x.ui = u.ui
    BY RebuiltSame
  <1>2. x.open = u.open
    BY DEF Rebuilt, Shape, Fields
  <1> QED
    BY <1>1, <1>2, SameCares DEF Calm, NoPrompt, SetUp

LEMMA FiltersCalm ==
  ASSUME NEW u, Shape(u), NEW f \in {"all", "some", "state"}, NEW x \in Filters(u, f)
  PROVE  Calm(u, x)
  <1> DEFINE v == [u EXCEPT !.ui.filter = f, !.ui.sel = 1]
  <1>1. /\ Shape(v) /\ v.ui.tab = u.ui.tab /\ v.ui.psp = u.ui.psp /\ v.open = u.open
    BY DEF Shape, Fields
  <1>2. Same(u, x)
    BY FiltersQuiet DEF Quiet
  <1>3. x \in Rebuilt(v)
    BY DEF Filters
  <1> HIDE DEF v
  <1>4. Calm(v, x)
    BY <1>1, <1>3, RebuiltCalm
  <1> QED
    BY <1>1, <1>2, <1>4, SameCares DEF Calm, NoPrompt, SetUp

LEMMA FilterMenuCalm ==
  ASSUME NEW u, Shape(u), NEW x \in FilterMenu(u)
  PROVE  Calm(u, x)
  <1> DEFINE c == Closes(u, "filter")
  <1>1. Calm(u, c) /\ Shape(c)
    BY ClosesCalm, ClosesQuiet DEF Quiet, Same
  <1>2. x = c \/ \E f \in {"all", "some", "state"} : x \in Filters(c, f)
    BY DEF FilterMenu
  <1> HIDE DEF c
  <1> QED
    BY <1>1, <1>2, FiltersCalm, CalmTrans

\* The page, but another tab.
LEMMA PageCalm ==
  ASSUME NEW u, Shape(u),
         NEW x \in OpenSettings(u) \cup MovesFocus(u) \cup OpensDetail(u)
                   \cup RebootDialog(u) \cup {Off(u)}
                   \cup {[u EXCEPT !.ui.mode = m] : m \in {"CLOSING_DETAIL", u.ui.back}}
  PROVE  Calm(u, x)
  <1>1. Same(u, x)
    BY PageQuiet DEF Quiet
  <1>2. x.open = u.open /\ x.ui.tab = u.ui.tab /\ x.ui.psp = u.ui.psp
    <2>1. CASE x \in OpenSettings(u)
      <3>1. PICK m, n : x = [u EXCEPT !.ui.mode = m, !.ui.back = n]
        BY <2>1 DEF OpenSettings
      <3> QED
        BY <3>1 DEF Shape, Fields
    <2>2. CASE x \in MovesFocus(u) \cup OpensDetail(u)
      BY <2>2 DEF MovesFocus, OpensDetail, Shape, Fields
    <2>3. CASE x \in RebootDialog(u) \cup {Off(u)}
      BY <2>3 DEF RebootDialog, Off, Shape, Fields
    <2>4. CASE x \in {[u EXCEPT !.ui.mode = m] : m \in {"CLOSING_DETAIL", u.ui.back}}
      BY <2>4 DEF Shape, Fields
    <2> QED
      BY <2>1, <2>2, <2>3, <2>4
  <1> QED
    BY <1>1, <1>2, SameCares DEF Calm, NoPrompt, SetUp

-----------------------------------------------------------------------------
(* The restart and the wizard *)

\* The wizard asks, warns or closes, and no restart was left to its report.
LEMMA PhaseHeeded ==
  ASSUME NEW u, Due(u), Windows(u), NEW x, Beside(u, x), x.e = u.e, x.reboot = u.reboot,
         ~Running(u), ~Running(x), x.b.phase # "Summary", x.b.plugin => u.b.plugin,
         Clean(x) => ~u.b.plugin,
         x.i.st = u.i.st, x.i.kind = u.i.kind, x.i.reboot = u.i.reboot, x.i.seen = u.i.seen,
         x.t.owed = u.t.owed, u.t.mixed => x.t.mixed, u.t.dropped => x.t.dropped
  PROVE  Heeded(u, x)
  <1>1. /\ Clean(x) => Clean(u) /\ ~u.b.plugin /\ ~x.b.plugin
        /\ PluginJob(x) <=> PluginJob(u)
        /\ HandJob(x) <=> HandJob(u)
        /\ x.open = u.open /\ (SetUp(x) <=> SetUp(u)) /\ x.s = u.s
        /\ x.i.seen <=> u.i.seen
    BY DEF Clean, PluginJob, HandJob, Beside, SetUp
  <1>2. Due(x)
    BY <1>1 DEF Due
  <1>3. Windows(x)
    BY <1>1 DEF Windows
  <1>4. Attended(u) => Handy(x)
    BY <1>1 DEF Attended, Handy
  <1> QED
    BY <1>2, <1>3, <1>4 DEF Heeded

LEMMA OpenBatchHeeded ==
  ASSUME NEW u, Shape(u), Due(u), u.open \cap Prompts = {}, SetUp(u), NEW item
  PROVE  Heeded(u, OpenBatch(u, item))
  <1> DEFINE x == OpenBatch(u, item)
  <1>1. /\ Beside(u, x) /\ x.e = u.e /\ x.t.mixed = u.t.mixed /\ x.reboot = u.reboot
        /\ x.t.owed = u.t.owed /\ (x.t.dropped <=> u.t.dropped \/ u.b.plugin)
        /\ x.b.phase = "Confirm" /\ ~x.b.plugin
        /\ x.i.st = u.i.st /\ x.i.kind = u.i.kind
        /\ x.i.reboot = u.i.reboot /\ x.i.seen = u.i.seen
    BY OpenBatchFacts
  <1> HIDE DEF x
  <1>2. /\ Clean(x) => Clean(u) /\ ~u.b.plugin
        /\ x.open \cap Prompts = {} /\ SetUp(x) /\ Wizard(x) /\ ~Running(x)
        /\ "psp" \notin x.open /\ "plugin" \notin x.open
        /\ (PluginJob(x) <=> PluginJob(u)) /\ (x.i.seen <=> u.i.seen)
    BY <1>1 DEF Clean, Beside, SetUp, Wizard, Running, Prompts, PluginJob
  <1>3. Due(x)
    BY <1>1, <1>2 DEF Due
  <1>4. Windows(x) /\ Handy(x)
    BY <1>2 DEF Windows, Handy
  <1>5. Heeded(u, x)
    BY <1>3, <1>4 DEF Heeded
  <1> QED
    BY <1>5 DEF x

LEMMA CloseWizardHeeded ==
  ASSUME NEW u, Shape(u), Due(u), Windows(u), u.b.phase = "Summary" => ~u.b.plugin
  PROVE  Heeded(u, CloseWizard(u))
  <1>1. CASE Running(u)
    <2>1. CloseWizard(u) = u
      BY <1>1 DEF CloseWizard
    <2> QED
      BY <2>1, HandyWhenAttended DEF Heeded
  <1>2. CASE ~Running(u)
    <2> DEFINE x == CloseWizard(u)
    <2>1. x = [u EXCEPT !.b = NoBatch]
      BY <1>2 DEF CloseWizard
    <2> HIDE DEF x
    <2>2. Beside(u, x) /\ x.e = u.e /\ x.i = u.i /\ x.t = u.t /\ x.b = NoBatch /\ x.reboot = u.reboot
      BY <2>1 DEF Shape, Beside, Fields, NoBatch
    <2>3. NoBatch.phase = "Hidden" /\ ~NoBatch.plugin
      BY DEF NoBatch
    <2>4. Clean(x) => ~u.b.plugin
      BY <1>2, <2>2 DEF Clean, Due, Running
    <2>5. Heeded(u, x)
      BY <1>2, <2>2, <2>3, <2>4, PhaseHeeded DEF Running
    <2> QED
      BY <2>5 DEF x
  <1> QED
    BY <1>1, <1>2

LEMMA StartQueueHeeded ==
  ASSUME NEW u, Shape(u), JobSound(u), EssentialSound(u), Due(u), Windows(u),
         u.b.phase \in Asking, NEW x \in StartQueue(u)
  PROVE  Heeded(u, x)
  <1> DEFINE b == u.b
             a == App(u)
             file(k) == IF b.chosen[k] = "one" /\ Options[a][Kinds[k]] > 0 THEN <<Kinds[k]>> ELSE <<>>
             queue == file(1) \o file(2) \o file(3)
                 \o [n \in 1 .. IF b.approved < Plugins[a] THEN b.approved ELSE Plugins[a]
                      |-> "plugin"]
             results == b.results \o [n \in 1 .. Len(queue) |-> "Pending"]
             has == \E k \in {2, 3} : b.chosen[k] = "one"
             skipped == Len(b.results)
             c == [b EXCEPT
                   !.app = a, !.queue = queue, !.at = 1, !.results = results,
                   !.skipped = skipped, !.last = "unset", !.plugin = FALSE,
                   !.hasFiles = has, !.filesOk = has, !.offers = 0, !.asked = 0, !.approved = 0,
                   !.waiting = FALSE, !.resolved = FALSE, !.tried = FALSE, !.autoFailed = FALSE]
             mixed == u.t.mixed \/ u.i.st # "Idle"
             app == IF u.t.app = a THEN a ELSE NoApp
             ended == [r \in DOMAIN results |-> "none"]
             kinds == [r \in 1 .. Len(b.results) |-> "plugin"] \o queue
             made == [u EXCEPT !.b = c, !.t.mixed = mixed, !.t.app = app, !.t.ended = ended,
                               !.t.kinds = kinds]
  <1>1. \/ x = CloseWizard(u)
        \/ x = [made EXCEPT !.b.phase = "SpaceWarning"]
        \/ x \in StartNextStep([made EXCEPT !.b.phase = "Running"])
    BY DEF StartQueue
  <1>2. DOMAIN c = DOMAIN NoBatch /\ ~c.waiting /\ ~c.plugin
    <2> HIDE DEF a, queue, results, has, skipped
    <2> QED
      BY DEF Shape, NoBatch
  <1>3. mixed <=> (u.t.mixed \/ u.i.st # "Idle")
    OBVIOUS
  <1> HIDE DEF c, mixed, app, ended, kinds
  <1>4. /\ DOMAIN made = Fields /\ DOMAIN made.t = DOMAIN NoTruth
        /\ made.b = c /\ made.e = u.e /\ made.i = u.i /\ made.s = u.s
        /\ made.reboot = u.reboot /\ made.open = u.open /\ made.work = u.work /\ made.ui = u.ui
        /\ made.view = u.view /\ made.stage = u.stage
        /\ made.t.mixed = mixed /\ made.t.owed = u.t.owed /\ made.t.dropped = u.t.dropped
    BY DEF Shape, Fields, NoTruth
  <1> HIDE DEF made
  <1>r. ~Running(u) /\ u.b.phase \notin {"Running", "Summary"}
    BY DEF Running, Asking
  <1>5. CASE x = [made EXCEPT !.b.phase = "SpaceWarning"]
    <2>1. /\ Beside(u, x) /\ x.e = u.e /\ x.i = u.i /\ x.t = made.t /\ x.reboot = u.reboot
          /\ x.b.phase = "SpaceWarning" /\ ~x.b.plugin
      BY <1>2, <1>4, <1>5 DEF Shape, Beside, Fields, NoBatch
    <2>2. Clean(x) => ~u.b.plugin
      BY <1>3, <1>4, <1>r, <2>1 DEF Clean, Due
    <2> QED
      BY <1>3, <1>4, <1>r, <2>1, <2>2, PhaseHeeded DEF Running
  <1>6. CASE x \in StartNextStep([made EXCEPT !.b.phase = "Running"])
    <2> DEFINE v == [made EXCEPT !.b.phase = "Running"]
    <2>1. /\ Shape(v) /\ Beside(u, v) /\ v.e = u.e /\ v.i = u.i /\ v.t = made.t
          /\ v.reboot = u.reboot
          /\ Running(v) /\ ~v.b.waiting /\ ~v.b.plugin
      BY <1>2, <1>4 DEF Shape, Beside, Fields, NoBatch, Running
    <2>2. x \in StartNextStep(v)
      BY <1>6
    <2> HIDE DEF v
    <2>3. /\ Beside(v, x) /\ x.e = v.e /\ x.t.mixed = v.t.mixed /\ x.reboot = v.reboot
          /\ SameDebt(v.t, x.t) /\ x.b.plugin = v.b.plugin
          /\ \/ x.b.phase = "Summary" /\ Released(v, x)
             \/ AtWork(x) /\ Takes(v)
      BY <2>1, <2>2, NextStepFacts
    <2>4. /\ Beside(u, x) /\ x.e = u.e /\ x.t.mixed = mixed /\ x.reboot = u.reboot
          /\ x.t.owed = u.t.owed /\ x.t.dropped = u.t.dropped /\ ~x.b.plugin
      BY <1>4, <2>1, <2>3 DEF Beside, SameDebt
    <2>5. Clean(x) => Clean(u) /\ u.i.st = "Idle" /\ ~u.e.running /\ ~u.b.plugin /\ ~u.i.reboot
      BY <1>3, <1>r, <2>4 DEF Clean, EssentialSound, JobSound, Due
    <2>6. Clean(x) => /\ ~x.i.reboot /\ ~HandJob(x) /\ ~(Running(x) /\ x.b.waiting)
                      /\ PluginJob(x) => ~x.i.seen
      <3>1. CASE x.b.phase = "Summary" /\ Released(v, x)
        BY <2>1, <2>5, <3>1 DEF Released, NoJob, HandJob, PluginJob, Running
      <3>2. CASE AtWork(x)
        BY <3>2 DEF AtWork, HandJob, Running
      <3> QED
        BY <2>3, <3>1, <3>2
    <2>7. Due(x)
      BY <2>4, <2>5, <2>6 DEF Due
    <2>8. Windows(x)
      BY <2>4 DEF Beside, Windows, SetUp
    <2>9. Handy(x)
      BY <2>6 DEF Handy
    <2> QED
      BY <2>7, <2>8, <2>9 DEF Heeded
  <1> QED
    BY <1>1, <1>5, <1>6, <1>r, CloseWizardHeeded

\* The wizard asks: what its questions rest on.
Poses(u) ==
    Shape(u) /\ JobSound(u) /\ EssentialSound(u) /\ Due(u) /\ Windows(u) /\ u.b.phase \in Asking

\* A choice was noted.
LEMMA NotedPoses ==
  ASSUME NEW u, Poses(u), NEW v, Shape(v), v.e = u.e, v.i = u.i, v.s = u.s, v.reboot = u.reboot,
         v.open = u.open, v.ui = u.ui, v.b.phase = u.b.phase, v.b.waiting = u.b.waiting,
         v.b.plugin = u.b.plugin, v.t.mixed = u.t.mixed, SameDebt(u.t, v.t)
  PROVE  Calm(u, v) /\ Poses(v)
  <1>1. Calm(u, v)
    BY DEF Calm, SameCare, NoPrompt, SetUp
  <1>2. JobSound(v) /\ EssentialSound(v)
    BY DEF Poses, JobSound, EssentialSound, Running, Asking
  <1> QED
    BY <1>1, <1>2, CalmKeeps DEF Poses

LEMMA AdvancePickHeeded ==
  ASSUME NEW u, Poses(u), NEW x \in AdvancePick(u)
  PROVE  Heeded(u, x)
  <1> DEFINE b == u.b
             a == App(u)
             asks == {k \in 1 .. 3 : b.chosen[k] = "open" /\ Options[a][Kinds[k]] > 1}
             ask == CHOOSE k \in asks : \A l \in asks : k <= l
             settled(upto) == [k \in 1 .. 3 |->
                 IF b.chosen[k] # "open" \/ k >= upto THEN b.chosen[k]
                 ELSE IF Options[a][Kinds[k]] = 0 THEN "none" ELSE "one"]
             some == settled(ask)
             all == settled(4)
             app == IF u.t.app = a THEN a ELSE NoApp
             same == [u EXCEPT !.t.app = app]
             picked == [same EXCEPT !.b.chosen = all]
             phase == PickPhase[ask]
             offers == Plugins[a]
  <1>1. \/ x = CloseWizard(u)
        \/ /\ asks # {}
           /\ x = [same EXCEPT !.b.chosen = some, !.b.phase = phase]
        \/ x = [picked EXCEPT !.b.phase = "PickPlugin", !.b.offers = offers,
                              !.b.asked = 0, !.b.approved = 0]
        \/ x \in StartQueue(picked)
    <2> HIDE DEF settled, asks
    <2> QED
      BY DEF AdvancePick, settled, asks
  <1>2. asks # {} => phase \in {"PickDownload", "PickGameFiles", "PickDataFiles"}
    <2> SUFFICES ASSUME asks # {}
                 PROVE  ask \in 1 .. 3
      <3>1. \A n \in 1 .. 3 : PickPhase[n] \in {"PickDownload", "PickGameFiles", "PickDataFiles"}
        BY DEF PickPhase
      <3> HIDE DEF asks, ask
      <3> QED
        BY <3>1
    <2>1. asks \subseteq 1 .. 3
      OBVIOUS
    <2> HIDE DEF asks
    <2>2. \E k \in asks : \A l \in asks : k <= l
      <3>1. 1 \in asks \/ 2 \in asks \/ 3 \in asks
        <4>1. PICK k : k \in asks
          OBVIOUS
        <4>2. k = 1 \/ k = 2 \/ k = 3
          BY <2>1, <4>1
        <4> QED
          BY <4>1, <4>2
      <3> QED
        BY <2>1, <3>1
    <2> QED
      BY <2>1, <2>2
  <1> HIDE DEF asks, settled, some, all, phase, offers, app
  <1>3. /\ Shape(picked) /\ picked.e = u.e /\ picked.i = u.i /\ picked.s = u.s
        /\ picked.reboot = u.reboot /\ picked.open = u.open /\ picked.work = u.work
        /\ picked.ui = u.ui /\ picked.stage = u.stage
        /\ picked.t.mixed = u.t.mixed /\ SameDebt(u.t, picked.t)
        /\ picked.b.phase = u.b.phase /\ picked.b.waiting = u.b.waiting
        /\ picked.b.plugin = u.b.plugin
    BY DEF Poses, Shape, Fields, NoBatch, NoTruth, SameDebt
  <1>4. u.b.phase \notin {"Running", "Summary"} /\ ~Running(u) /\ (Clean(u) => ~u.b.plugin)
    BY DEF Poses, Due, Running, Asking
  <1>5. CASE asks # {} /\ x = [same EXCEPT !.b.chosen = some, !.b.phase = phase]
    <2>1. /\ Beside(u, x) /\ x.e = u.e /\ x.i = u.i /\ x.b.phase = phase /\ x.reboot = u.reboot
          /\ x.t.mixed = u.t.mixed /\ SameDebt(u.t, x.t) /\ x.b.plugin = u.b.plugin
      BY <1>2, <1>5 DEF Poses, Shape, Beside, Fields, NoBatch, NoTruth, SameDebt
    <2>2. Clean(x) => ~u.b.plugin
      BY <1>4, <2>1 DEF Clean, SameDebt
    <2> QED
      BY <1>2, <1>4, <1>5, <2>1, <2>2, PhaseHeeded DEF Poses, Running, SameDebt
  <1> HIDE DEF picked
  <1>6. CASE x = [picked EXCEPT !.b.phase = "PickPlugin", !.b.offers = offers,
                                !.b.asked = 0, !.b.approved = 0]
    <2>1. /\ Beside(u, x) /\ x.e = u.e /\ x.i = u.i /\ x.t = picked.t /\ x.reboot = u.reboot
          /\ x.b.phase = "PickPlugin" /\ x.b.plugin = u.b.plugin
      BY <1>3, <1>6 DEF Shape, Beside, Fields, NoBatch
    <2>2. Clean(x) => ~u.b.plugin
      BY <1>3, <1>4, <2>1 DEF Clean, SameDebt
    <2> QED
      BY <1>3, <1>4, <2>1, <2>2, PhaseHeeded DEF Poses, Running, SameDebt
  <1>7. CASE x \in StartQueue(picked)
    <2>1. Calm(u, picked) /\ Poses(picked)
      BY <1>3, NotedPoses
    <2>2. Heeded(picked, x)
      BY <1>7, <2>1, StartQueueHeeded DEF Poses
    <2> QED
      BY <2>1, <2>2, AfterCalm
  <1> QED
    BY <1>1, <1>4, <1>5, <1>6, <1>7, CloseWizardHeeded DEF Poses

LEMMA PickHeeded ==
  ASSUME NEW u, Poses(u), NEW x \in Pick(u)
  PROVE  Heeded(u, x)
  <1> DEFINE k == CHOOSE n \in 1 .. 3 : PickPhase[n] = u.b.phase
             chosen == [u.b.chosen EXCEPT ![k] = "one"]
             v == [u EXCEPT !.b.chosen[k] = "one"]
  <1>1. x \in AdvancePick(v)
    BY DEF Pick
  <1> HIDE DEF k
  <1>2. v = [u EXCEPT !.b.chosen = chosen]
    BY DEF Poses, Shape, Fields, NoBatch
  <1> HIDE DEF v, chosen
  <1>3. /\ Shape(v) /\ v.e = u.e /\ v.i = u.i /\ v.s = u.s /\ v.t = u.t
        /\ v.reboot = u.reboot /\ v.open = u.open /\ v.ui = u.ui
        /\ v.b.phase = u.b.phase /\ v.b.waiting = u.b.waiting /\ v.b.plugin = u.b.plugin
    BY <1>2 DEF Poses, Shape, Fields, NoBatch
  <1>4. Calm(u, v) /\ Poses(v)
    BY <1>3, NotedPoses DEF SameDebt
  <1> QED
    BY <1>1, <1>4, AdvancePickHeeded, AfterCalm

LEMMA AdvancePluginPickHeeded ==
  ASSUME NEW u, Poses(u), NEW install, NEW x \in AdvancePluginPick(u, install)
  PROVE  Heeded(u, x)
  <1> DEFINE results == IF install THEN u.b.results ELSE Append(u.b.results, "Skipped")
             approved == IF install THEN u.b.approved + 1 ELSE u.b.approved
             v == [u EXCEPT !.b.asked = @ + 1, !.b.approved = approved, !.b.results = results]
  <1>1. x = CloseWizard(u) \/ x = v \/ x \in StartQueue(v)
    BY DEF AdvancePluginPick
  <1> HIDE DEF results, approved
  <1>2. /\ Shape(v) /\ v.e = u.e /\ v.i = u.i /\ v.s = u.s /\ v.t = u.t
        /\ v.reboot = u.reboot /\ v.open = u.open /\ v.ui = u.ui
        /\ v.b.phase = u.b.phase /\ v.b.waiting = u.b.waiting /\ v.b.plugin = u.b.plugin
    BY DEF Poses, Shape, Fields, NoBatch
  <1> HIDE DEF v
  <1>3. Calm(u, v) /\ Poses(v)
    BY <1>2, NotedPoses DEF SameDebt
  <1>4. Heeded(u, v)
    BY <1>3, HandyWhenAttended, CalmKeeps DEF Heeded, Poses
  <1>5. u.b.phase # "Summary"
    BY DEF Poses, Asking
  <1> QED
    BY <1>1, <1>3, <1>4, <1>5, StartQueueHeeded, CloseWizardHeeded, AfterCalm DEF Poses

LEMMA SummaryZipCalm ==
  ASSUME NEW u, Shape(u), NEW keep, NEW x \in SummaryZip(u, keep)
  PROVE  Calm(u, x)
  <1>1. \/ \E v : x = [u EXCEPT !.b.sure = v]
        \/ \E r : x = [u EXCEPT !.b.sure = FALSE, !.b.results[r] = "Deleted"]
    BY DEF SummaryZip
  <1>2. ASSUME NEW v, x = [u EXCEPT !.b.sure = v]
        PROVE  Calm(u, x)
    BY <1>2 DEF Shape, Fields, NoBatch, Calm, SameCare, SameDebt, NoPrompt, SetUp
  <1>3. ASSUME NEW r, x = [u EXCEPT !.b.sure = FALSE, !.b.results[r] = "Deleted"]
        PROVE  Calm(u, x)
    <2> DEFINE results == [u.b.results EXCEPT ![r] = "Deleted"]
    <2>1. x = [u EXCEPT !.b.sure = FALSE, !.b.results = results]
      BY <1>3 DEF Shape, Fields, NoBatch
    <2> HIDE DEF results
    <2> QED
      BY <2>1 DEF Shape, Fields, NoBatch, Calm, SameCare, SameDebt, NoPrompt, SetUp
  <1> QED
    BY <1>1, <1>2, <1>3

LEMMA WizardHeeded ==
  ASSUME NEW u, Heeds(u), Wizard(u), NEW x \in PressWizard(u) \cup TouchWizard(u)
  PROVE  Heeded(u, x)
  <1>1. ~Running(u) /\ Shape(u)
    BY DEF Wizard, Running, Heeds, Sound
  <1>2. /\ u.b.phase \in {"Confirm", "PickDownload", "PickGameFiles", "PickDataFiles",
                         "PickPlugin", "SpaceWarning", "Summary"}
        /\ ToSet(PickPhase) = {"PickDownload", "PickGameFiles", "PickDataFiles"}
    BY <1>1 DEF Wizard, Shape, PickPhase, ToSet
  <1>3. \/ x = CloseWizard(u) /\ (u.b.phase = "Summary" => ~u.b.plugin)
        \/ u.b.phase = "Confirm" /\ x \in AdvancePick(u)
        \/ u.b.phase \in ToSet(PickPhase) /\ x \in Pick(u)
        \/ \E yes \in BOOLEAN :
              \/ u.b.phase = "PickPlugin" /\ x \in AdvancePluginPick(u, yes)
              \/ u.b.phase = "Summary" /\ x \in SummaryZip(u, yes)
        \/ x = Off(u)
        \/ x \in Report(u)
    BY <1>2 DEF PressWizard, TouchWizard, InstallWizard
  <1>4. CASE x \in Report(u) \/ x = Off(u) \/ \E yes \in BOOLEAN : x \in SummaryZip(u, yes)
    <2>1. Calm(u, x)
      BY <1>1, <1>4, NoticesCalm, PageCalm, SummaryZipCalm
    <2> QED
      BY <2>1, CalmHeeded
  <1>5. CASE x = CloseWizard(u) /\ (u.b.phase = "Summary" => ~u.b.plugin)
    BY <1>5, CloseWizardHeeded DEF Heeds, Sound
  <1>6. CASE \/ u.b.phase = "Confirm" /\ x \in AdvancePick(u)
             \/ u.b.phase \in ToSet(PickPhase) /\ x \in Pick(u)
             \/ \E yes \in BOOLEAN : u.b.phase = "PickPlugin" /\ x \in AdvancePluginPick(u, yes)
    <2>1. Poses(u)
      BY <1>2, <1>6 DEF Poses, Heeds, Sound, Asking
    <2> QED
      BY <1>6, <2>1, AdvancePickHeeded, PickHeeded, AdvancePluginPickHeeded
  <1> QED
    BY <1>3, <1>4, <1>5, <1>6

-----------------------------------------------------------------------------
(* The restart and the links *)

\* A dialog that leads to a link is opened.
LEMMA PromptHeeded ==
  ASSUME NEW u, Heeds(u), NEW x, SameCare(u, x), x.ui.tab = u.ui.tab, x.ui.psp = u.ui.psp,
         NEW d, x.open = u.open \cup {d},
         d = "psp" => "plugin" \notin u.open /\ ~(Clean(u) /\ HandJob(u)),
         d = "plugin" => "psp" \notin u.open /\ SetUp(u)
  PROVE  Heeded(u, x)
  <1>1. (Clean(x) <=> Clean(u)) /\ (PluginJob(x) <=> PluginJob(u)) /\ (HandJob(x) <=> HandJob(u))
        /\ (Running(x) <=> Running(u)) /\ (SetUp(x) <=> SetUp(u))
    BY DEF SameCare, SameDebt, Clean, PluginJob, HandJob, Running, SetUp
  <1>2. Due(x)
    BY <1>1 DEF SameCare, SameDebt, Due, Heeds
  <1>3. Windows(x)
    BY <1>1 DEF Windows, Heeds
  <1>4. Attended(u) => Handy(x)
    BY <1>1 DEF SameCare, Attended, Handy
  <1> QED
    BY <1>2, <1>3, <1>4 DEF Heeded

\* Nothing lies over the page.
Clear(u) == ~u.s.active /\ ~Wizard(u) /\ u.open \cap Prompts = {}

LEMMA ClearFree ==
  ASSUME NEW u, Heeds(u), Clear(u)
  PROVE  Free(u) /\ (~SetUp(u) => ~(Clean(u) /\ HandJob(u)))
  BY DEF Heeds, Handy, Clear, Free, Takes, Terminal

LEMMA OpenWizardHeeded ==
  ASSUME NEW u, Heeds(u), u.open \cap Prompts = {}, NEW x \in OpenWizard(u)
  PROVE  Heeded(u, x)
  <1> DEFINE ask == [item |-> u.ui.sel, app |-> TheApp(u), all |-> TRUE]
             v == [Opens(u, "psp") EXCEPT !.ui.ask = ask]
  <1> Shape(u)
    BY DEF Heeds, Sound
  <1>1. \/ x = v /\ ~SetUp(u) /\ ~u.s.active
        \/ x = OpenBatch(u, u.ui.sel) /\ SetUp(u)
    BY DEF OpenWizard, SetUp
  <1> HIDE DEF ask
  <1>2. CASE x = v /\ ~SetUp(u) /\ ~u.s.active
    <2>1. Same(u, v)
      BY AskSame DEF Dialogs
    <2>2. v.open = u.open \cup {"psp"} /\ v.ui.tab = u.ui.tab /\ v.ui.psp = u.ui.psp
      BY DEF Opens, Shape, Fields
    <2> HIDE DEF v
    <2>3. ~(Clean(u) /\ HandJob(u))
      BY <1>2 DEF Heeds, Handy
    <2>4. "plugin" \notin u.open
      BY DEF Prompts
    <2> DEFINE d == "psp"
    <2>5. v.open = u.open \cup {d} /\ d # "plugin"
      BY <2>2
    <2> HIDE DEF d
    <2> QED
      BY <1>2, <2>1, <2>2, <2>3, <2>4, <2>5, SameCares, PromptHeeded
  <1>3. CASE x = OpenBatch(u, u.ui.sel) /\ SetUp(u)
    BY <1>3, OpenBatchHeeded DEF Heeds
  <1> QED
    BY <1>1, <1>2, <1>3

LEMMA GateHeeded ==
  ASSUME NEW u, Heeds(u), Free(u), "psp" \notin u.open, SetUp(u), NEW item, NEW x \in Gate(u, item)
  PROVE  Heeded(u, x)
  <1> DEFINE ask == [item |-> item, app |-> u.view[item], all |-> FALSE]
             v == [Opens(u, "plugin") EXCEPT !.ui.ask = ask]
  <1> Shape(u)
    BY DEF Heeds, Sound
  <1>1. \/ x = u \/ x = v
        \/ \E k \in ToSet(Kinds) : x \in Link(u, k)
    BY DEF Gate
  <1> HIDE DEF ask
  <1>2. Heeded(u, v)
    <2>1. Same(u, v)
      BY AskSame DEF Dialogs
    <2>2. v.open = u.open \cup {"plugin"} /\ v.ui.tab = u.ui.tab /\ v.ui.psp = u.ui.psp
      BY DEF Opens, Shape, Fields
    <2> HIDE DEF v
    <2> DEFINE d == "plugin"
    <2>3. v.open = u.open \cup {d} /\ d # "psp"
      BY <2>2
    <2> HIDE DEF d
    <2> QED
      BY <2>1, <2>2, <2>3, SameCares, PromptHeeded
  <1> HIDE DEF v
  <1>3. ToSet(Kinds) \subseteq LinkKinds \ {"plugin"}
    BY DEF ToSet, Kinds, LinkKinds
  <1>4. Heeded(u, u)
    BY CalmSelf, CalmHeeded
  <1> QED
    BY <1>1, <1>2, <1>3, <1>4, LinkHeeded

LEMMA FocusedLinkHeeded ==
  ASSUME NEW u, Heeds(u), Clear(u), NEW x \in FocusedLink(u)
  PROVE  Heeded(u, x)
  <1> DEFINE ask == [item |-> u.ui.sel, app |-> TheApp(u), all |-> FALSE]
             asked == [u EXCEPT !.ui.ask = ask, !.ui.sure = FALSE]
  <1> Shape(u)
    BY DEF Heeds, Sound
  <1>1. \/ x \in OpenWizard(u) \/ x = Off(u) \/ x \in Link(u, "app")
        \/ x = Opens(asked, "savedZip") \/ (x = Opens(asked, "psp") /\ ~SetUp(u))
        \/ x = Opens(u, "webQr")
        \/ x \in Gate(u, u.ui.sel) /\ SetUp(u)
    BY DEF FocusedLink, PrimaryAction, SetUp
  <1>2. Free(u) /\ (~SetUp(u) => ~(Clean(u) /\ HandJob(u)))
        /\ u.open \cap Prompts = {} /\ "psp" \notin u.open /\ "plugin" \notin u.open
    BY ClearFree DEF Clear, Prompts
  <1> HIDE DEF ask
  <1>3. ASSUME NEW d \in {"savedZip", "psp"}, x = Opens(asked, d), d = "psp" => ~SetUp(u)
        PROVE  Heeded(u, x)
    <2>1. Same(u, x)
      BY <1>3, AskSame DEF Dialogs
    <2>2. x.open = u.open \cup {d} /\ x.ui.tab = u.ui.tab /\ x.ui.psp = u.ui.psp
      BY <1>3 DEF Opens, Shape, Fields
    <2> QED
      BY <1>2, <1>3, <2>1, <2>2, SameCares, PromptHeeded
  <1>4. CASE x = Off(u) \/ x = Opens(u, "webQr")
    <2>1. Calm(u, x)
      BY <1>4, PageCalm, OpensCalm DEF Dialogs, Prompts
    <2> QED
      BY <2>1, CalmHeeded
  <1>5. CASE x \in Link(u, "app")
    BY <1>2, <1>5, LinkHeeded DEF LinkKinds
  <1> QED
    BY <1>1, <1>2, <1>3, <1>4, <1>5, OpenWizardHeeded, GateHeeded

LEMMA SavedZipHeeded ==
  ASSUME NEW u, Heeds(u), "savedZip" \in u.open, NEW x \in SavedZip(u)
  PROVE  Heeded(u, x)
  <1> DEFINE c == Closes(u, "savedZip")
             gone == [c EXCEPT !.ui.sure = FALSE]
             armed == [u EXCEPT !.ui.sure = TRUE]
  <1> Shape(u)
    BY DEF Heeds, Sound
  <1>1. \/ x = gone \/ x = armed
        \/ ~u.s.active /\ \E v \in Link(u, "data") : x = v \/ x = Closes(v, "savedZip")
    BY DEF SavedZip
  <1>2. Calm(u, gone) /\ Calm(u, armed)
    BY DEF Closes, Shape, Fields, Calm, SameCare, SameDebt, NoPrompt, SetUp
  <1> HIDE DEF gone, armed
  <1>3. ASSUME ~u.s.active, NEW v \in Link(u, "data"), x = v \/ x = Closes(v, "savedZip")
        PROVE  Heeded(u, x)
    <2>1. Free(u)
      BY <1>3 DEF Heeds, Handy, Free, Takes, Terminal, Prompts
    <2>2. Heeded(u, v) /\ Shape(v)
      BY <1>3, <2>1, LinkHeeded DEF LinkKinds
    <2> QED
      BY <1>3, <2>2, ClosesCalm, BeforeCalm
  <1> QED
    BY <1>1, <1>2, <1>3, CalmHeeded

LEMMA PluginChoiceHeeded ==
  ASSUME NEW u, Heeds(u), "plugin" \in u.open, NEW x \in PluginChoice(u)
  PROVE  Heeded(u, x)
  <1> DEFINE c == Closes(u, "plugin")
  <1> Shape(u)
    BY DEF Heeds, Sound
  <1>1. x = c \/ (x \in Link(c, "plugin") /\ ~u.s.active)
    BY DEF PluginChoice
  <1>2. Same(u, c) /\ Calm(u, c) /\ c.open = u.open \ {"plugin"} /\ c.ui = u.ui
    BY ClosesQuiet, ClosesCalm DEF Quiet
  <1> HIDE DEF c
  <1>3. Heeded(u, c) /\ Heeds(c)
    BY <1>2, CalmHeeded, SameSound DEF Heeds
  <1>4. "psp" \notin c.open /\ SetUp(c)
    BY <1>2 DEF Heeds, Windows, SetUp
  <1>5. ~u.s.active => Free(c)
    <2>1. ~u.s.active => Free(u)
      BY DEF Heeds, Handy, Free, Takes, Terminal, Prompts
    <2> QED
      BY <1>2, <2>1 DEF Calm, SameCare, SameDebt, Free, Takes, Clean, HandJob, PluginJob, Running
  <1> QED
    BY <1>1, <1>2, <1>3, <1>4, <1>5, LinkHeeded, AfterCalm DEF LinkKinds

LEMMA PspSetupHeeded ==
  ASSUME NEW u, Heeds(u), "psp" \in u.open, "savedZip" \notin u.open, NEW x \in PspSetup(u)
  PROVE  Heeded(u, x)
  <1> DEFINE c == Closes(u, "psp")
             done == [c EXCEPT !.ui.psp = TRUE]
  <1> Shape(u)
    BY DEF Heeds, Sound
  <1>1. x = c \/ x = done \/ x \in OpenWizard(done) \/ \E item : x \in Gate(done, item)
    BY DEF PspSetup
  <1>2. Same(u, c) /\ Calm(u, c) /\ c.open = u.open \ {"psp"} /\ c.ui = u.ui
    BY ClosesQuiet, ClosesCalm DEF Quiet
  <1> HIDE DEF c
  <1>3. Same(u, done) /\ done.open = c.open /\ done.ui.psp
    <2>1. /\ DOMAIN done = Fields /\ DOMAIN done.ui = DOMAIN c.ui /\ done.ui.filter = c.ui.filter
          /\ done.view = c.view /\ done.ui.list = c.ui.list /\ done.ui.tab = c.ui.tab
          /\ done.open = c.open /\ done.work = c.work /\ done.ui.psp
          /\ done.b = c.b /\ done.e = c.e /\ done.i = c.i /\ done.s = c.s /\ done.t = c.t
          /\ done.reboot = c.reboot
      BY <1>2 DEF Same, Shape, Fields
    <2> HIDE DEF done
    <2>2. Same(c, done)
      BY <1>2, <2>1, LooksSame DEF Same, Shape, AtStorage
    <2> QED
      BY <1>2, <2>1, <2>2, SameTrans
  <1> HIDE DEF done
  <1>4. Calm(u, done)
    BY <1>2, <1>3, SameCares DEF Calm, NoPrompt, SetUp
  <1>5. Heeded(u, c) /\ Heeded(u, done) /\ Heeds(done)
    BY <1>2, <1>3, <1>4, CalmHeeded, SameSound DEF Heeds
  <1>6. done.open \cap Prompts = {} /\ "psp" \notin done.open /\ SetUp(done)
    BY <1>2, <1>3 DEF Heeds, Windows, Prompts, SetUp
  <1>7. Free(done)
    BY <1>4 DEF Heeds, Due, Calm, SameCare, SameDebt, Free, Clean, HandJob, PluginJob, Running
  <1> QED
    BY <1>1, <1>4, <1>5, <1>6, <1>7, OpenWizardHeeded, GateHeeded, AfterCalm

-----------------------------------------------------------------------------
(* The restart, the page and the storage *)

\* Another tab may ask for the setup, and so is not chosen over the progress of a job.
LEMMA TabHeeded ==
  ASSUME NEW u, Heeds(u), "plugin" \notin u.open, NEW x \in ChangeTab(u)
  PROVE  Heeded(u, x)
  <1>1. PICK tab \in Tabs, begun \in BOOLEAN : x = EmptyPage(u, tab, begun)
    BY DEF ChangeTab
  <1>2. ~u.s.active
    BY DEF ChangeTab
  <1>3. /\ x.b = u.b /\ x.e = u.e /\ x.i = u.i /\ x.s = u.s /\ x.t = u.t /\ x.reboot = u.reboot
        /\ x.open = u.open
    BY <1>1 DEF Heeds, Sound, Shape, Fields, EmptyPage
  <1>4. (Clean(x) <=> Clean(u)) /\ (PluginJob(x) <=> PluginJob(u)) /\ (HandJob(x) <=> HandJob(u))
        /\ (Running(x) <=> Running(u))
    BY <1>3 DEF Clean, PluginJob, HandJob, Running
  <1>5. Due(x)
    BY <1>3, <1>4 DEF Due, Heeds
  <1>6. Windows(x)
    BY <1>3 DEF Windows, Heeds
  <1>7. Attended(u) => Handy(x)
    BY <1>2, <1>4 DEF Attended, Handy
  <1> QED
    BY <1>5, <1>6, <1>7 DEF Heeded

LEMMA OpenStorageCalm ==
  ASSUME NEW u, Shape(u), NEW x \in OpenStorage(u)
  PROVE  Calm(u, x)
  <1> DEFINE o == Opens(u, "storage")
             v == [o EXCEPT !.ui.sure = FALSE]
  <1>1. x = v \/ x = [v EXCEPT !.work = @ \cup {"scan"}]
    BY DEF OpenStorage, Hires
  <1>2. /\ DOMAIN o = Fields /\ o.ui = u.ui /\ o.open = u.open \cup {"storage"}
        /\ o.b = u.b /\ o.e = u.e /\ o.i = u.i /\ o.s = u.s /\ o.t = u.t /\ o.reboot = u.reboot
    BY DEF Shape, Opens, Fields
  <1> HIDE DEF o
  <1>3. /\ DOMAIN v = Fields /\ v.ui.tab = u.ui.tab /\ v.ui.psp = u.ui.psp
        /\ v.open = u.open \cup {"storage"}
        /\ v.b = u.b /\ v.e = u.e /\ v.i = u.i /\ v.s = u.s /\ v.t = u.t /\ v.reboot = u.reboot
    BY <1>2 DEF Shape, Fields
  <1> HIDE DEF v
  <1>4. /\ x.ui.tab = u.ui.tab /\ x.ui.psp = u.ui.psp
        /\ x.open = u.open \cup {"storage"}
        /\ x.b = u.b /\ x.e = u.e /\ x.i = u.i /\ x.s = u.s /\ x.t = u.t /\ x.reboot = u.reboot
    BY <1>1, <1>3 DEF Fields
  <1> QED
    BY <1>4 DEF Calm, SameCare, SameDebt, NoPrompt, Prompts, SetUp

LEMMA StorageCalm ==
  ASSUME NEW u, Shape(u),
         NEW x \in StorageRows(u) \cup StorageCloses(u) \cup {[u EXCEPT !.ui.sure = FALSE]}
  PROVE  Calm(u, x)
  <1> DEFINE calm == [u EXCEPT !.ui.sure = FALSE]
             armed == [u EXCEPT !.ui.sure = TRUE]
             c == Closes(u, "storage")
             shut == [c EXCEPT !.ui.sure = FALSE]
             hired == [calm EXCEPT !.work = @ \cup {"remove"}]
  <1>1. x = calm \/ x = armed \/ x \in OpenData(calm) \/ x = hired \/ x = shut
    BY DEF StorageRows, StorageCloses, Hires
  <1>2. ASSUME NEW v, v = calm \/ v = armed
        PROVE  Same(u, v) /\ Calm(u, v)
    <2>1. /\ DOMAIN v = Fields /\ DOMAIN v.ui = DOMAIN u.ui /\ v.ui.filter = u.ui.filter
          /\ v.view = u.view /\ v.ui.list = u.ui.list /\ v.ui.tab = u.ui.tab
          /\ v.ui.psp = u.ui.psp /\ v.open = u.open /\ v.work = u.work
          /\ v.b = u.b /\ v.e = u.e /\ v.i = u.i /\ v.s = u.s /\ v.t = u.t /\ v.reboot = u.reboot
      BY <1>2 DEF Shape, Fields
    <2>2. Same(u, v)
      BY <2>1, LooksSame DEF Shape, AtStorage
    <2> QED
      BY <2>1, <2>2, SameCares DEF Calm, NoPrompt, SetUp
  <1>3. Calm(u, calm) /\ Shape(calm) /\ Calm(u, armed)
    BY <1>2 DEF Same
  <1>4. CASE x = hired
    <2>1. /\ x.b = calm.b /\ x.e = calm.e /\ x.i = calm.i /\ x.s = calm.s /\ x.t = calm.t
          /\ x.reboot = calm.reboot /\ x.open = calm.open /\ x.ui = calm.ui
      <3> HIDE DEF calm
      <3> QED
        BY <1>3, <1>4 DEF Shape, Fields
    <2>2. Calm(calm, x)
      <3> HIDE DEF calm
      <3> QED
        BY <2>1 DEF Calm, SameCare, SameDebt, NoPrompt, SetUp
    <2> QED
      BY <1>3, <2>2, CalmTrans
  <1>5. CASE x = shut
    <2>1. /\ DOMAIN c = Fields /\ c.ui = u.ui /\ c.open = u.open \ {"storage"}
          /\ c.b = u.b /\ c.e = u.e /\ c.i = u.i /\ c.s = u.s /\ c.t = u.t /\ c.reboot = u.reboot
      BY DEF Shape, Fields, Closes
    <2> HIDE DEF c
    <2>2. /\ x.b = u.b /\ x.e = u.e /\ x.i = u.i /\ x.s = u.s /\ x.t = u.t
          /\ x.reboot = u.reboot /\ x.open \subseteq u.open
          /\ x.ui.tab = u.ui.tab /\ x.ui.psp = u.ui.psp
      BY <1>5, <2>1 DEF Shape, Fields
    <2> QED
      BY <2>2 DEF Calm, SameCare, SameDebt, NoPrompt, SetUp
  <1>6. CASE x \in OpenData(calm)
    <2> HIDE DEF calm
    <2> QED
      BY <1>3, <1>6, NoticesCalm, CalmTrans
  <1> HIDE DEF calm, armed, hired, shut
  <1> QED
    BY <1>1, <1>3, <1>4, <1>5, <1>6

LEMMA DetailHeeded ==
  ASSUME NEW u, Heeds(u), Clear(u), NEW x \in Detail(u)
  PROVE  Heeded(u, x)
  <1>1. \/ x = [u EXCEPT !.ui.mode = "CLOSING_DETAIL"]
        \/ x \in FocusedLink(u)
        \/ x \in OpenRequest(u) \cup OpenData(u)
    BY DEF Detail
  <1> Shape(u)
    BY DEF Heeds, Sound
  <1>2. CASE x = [u EXCEPT !.ui.mode = "CLOSING_DETAIL"]
    BY <1>2, PageCalm, CalmHeeded
  <1>3. CASE x \in OpenRequest(u) \cup OpenData(u)
    BY <1>3, NoticesCalm, CalmHeeded
  <1> QED
    BY <1>1, <1>2, <1>3, FocusedLinkHeeded

LEMMA PageHeeded ==
  ASSUME NEW u, Heeds(u), Clear(u), NEW x \in PressPage(u) \cup TouchPage(u)
  PROVE  Heeded(u, x)
  <1>1. \/ x \in MovesFocus(u) \cup OpensDetail(u)
        \/ x \in ChangeTab(u)
        \/ x \in FilterButton(u) \cup OpenReport(u)
        \/ \E d \in {"keyboard", "webQr"} : x = Opens(u, d)
        \/ x \in Filters(u, "all")
        \/ x \in Detail(u)
        \/ x \in OpenStorage(u)
    <2>1. CASE x \in PressPage(u)
      BY <2>1 DEF PressPage
    <2>2. CASE x \in TouchPage(u)
      BY <2>2 DEF TouchPage
    <2> QED
      BY <2>1, <2>2
  <1> Shape(u)
    BY DEF Heeds, Sound
  <1>2. CASE x \in MovesFocus(u) \cup OpensDetail(u)
    BY <1>2, PageCalm, CalmHeeded
  <1>3. CASE x \in FilterButton(u) \cup OpenReport(u)
    BY <1>3, NoticesCalm, CalmHeeded
  <1>4. CASE \E d \in {"keyboard", "webQr"} : x = Opens(u, d)
    BY <1>4, OpensCalm, CalmHeeded DEF Dialogs, Prompts
  <1>5. CASE x \in Filters(u, "all")
    BY <1>5, FiltersCalm, CalmHeeded
  <1>6. CASE x \in OpenStorage(u)
    BY <1>6, OpenStorageCalm, CalmHeeded
  <1>7. CASE x \in ChangeTab(u)
    BY <1>7, TabHeeded DEF Clear, Prompts
  <1> QED
    BY <1>1, <1>2, <1>3, <1>4, <1>5, <1>6, <1>7, DetailHeeded

LEMMA KeysHeeded ==
  ASSUME NEW u, Heeds(u), NEW x \in Keys(u)
  PROVE  Heeded(u, x)
  <1>1. \/ x \in OpenSettings(u) \cup {Off(u)}
        \/ x \in ChangeTab(u) /\ "plugin" \notin u.open
    BY DEF Keys, Dialogs
  <1> Shape(u)
    BY DEF Heeds, Sound
  <1>2. CASE x \in OpenSettings(u) \cup {Off(u)}
    BY <1>2, PageCalm, CalmHeeded
  <1> QED
    BY <1>1, <1>2, TabHeeded

\* The queue of plugins begins: what a batch left to its report is still the report's.
LEMMA EssentialPromptHeeded ==
  ASSUME NEW u, Heeds(u), "essential" \in u.open, NEW x \in EssentialPrompt(u)
  PROVE  Heeded(u, x)
  <1> DEFINE c == Closes(u, "essential")
  <1> Shape(u)
    BY DEF Heeds, Sound
  <1>1. x = c \/ x \in InstallEssential(c)
    BY DEF EssentialPrompt
  <1>2. Calm(u, c) /\ Same(u, c)
    BY ClosesCalm, ClosesQuiet DEF Quiet
  <1> HIDE DEF c
  <1>3. Heeded(u, c) /\ Heeds(c)
    BY <1>2, CalmHeeded, SameSound DEF Heeds
  <1>4. ~c.e.running
    BY <1>2 DEF Calm, SameCare, Heeds, Sound, EssentialSound
  <1>5. CASE x \in InstallEssential(c)
    <2> DEFINE mixed == c.t.mixed \/ c.i.st # "Idle"
               v == [c EXCEPT !.e.running = TRUE, !.e.begun = FALSE, !.t.mixed = mixed]
    <2>1. x \in KickEssential(v)
      BY <1>5 DEF InstallEssential
    <2>2. mixed <=> (c.t.mixed \/ c.i.st # "Idle")
      OBVIOUS
    <2> HIDE DEF mixed
    <2>3. /\ Beside(c, v) /\ v.b = c.b /\ v.i = c.i /\ v.t.mixed = mixed /\ v.reboot = c.reboot
          /\ SameDebt(c.t, v.t) /\ v.e.running
      BY <1>3 DEF Heeds, Sound, Shape, Beside, Fields, NoQueue, NoTruth, SameDebt
    <2> HIDE DEF v
    <2>4. /\ Beside(v, x) /\ x.b = v.b /\ x.t.mixed = v.t.mixed /\ Remembers(v, x)
          /\ \/ ~x.e.running /\ (x.i = v.i \/ FailedAtOnce(x.i))
             \/ PluginStarted(x.i) /\ x.e.running = v.e.running
      <3>1. Shape(v)
        BY <2>3 DEF Beside
      <3>2. /\ Beside(v, x) /\ x.b = v.b /\ x.t.mixed = v.t.mixed /\ Remembers(v, x)
            /\ \/ /\ ~x.e.running /\ x.e.left = 0 /\ (v.e.begun => x.reboot \/ x.t.dropped)
                  /\ x.i = v.i \/ (Takes(v) /\ FailedAtOnce(x.i))
               \/ /\ v.e.left # 0 /\ Takes(v) /\ PluginStarted(x.i)
                  /\ x.e.running = v.e.running /\ x.e.left = v.e.left /\ x.e.last = "none"
                  /\ x.e.begun = v.e.begun
        BY <2>1, <3>1, KickFacts
      <3> QED
        BY <3>2
    <2>5. /\ Beside(c, x) /\ x.b = c.b /\ x.t.mixed = mixed
          /\ x.t.owed = c.t.owed /\ (c.t.dropped => x.t.dropped) /\ (c.reboot => x.reboot)
          /\ \/ ~x.e.running /\ (x.i = c.i \/ FailedAtOnce(x.i))
             \/ PluginStarted(x.i) /\ x.e.running
      BY <2>3, <2>4 DEF Beside, Remembers, SameDebt
    <2>6. Clean(x) => Clean(c) /\ c.i.st = "Idle" /\ ~c.i.reboot
      <3>1. c.i.st = "Idle" => ~c.i.reboot
        BY <1>3 DEF Heeds, Sound, JobSound
      <3> QED
        BY <2>2, <2>5, <3>1 DEF Clean
    <2>7. Clean(x) => /\ ~x.i.reboot /\ ~HandJob(x)
                      /\ PluginJob(x) => x.e.running /\ ~x.i.seen
      BY <2>5, <2>6 DEF FailedAtOnce, PluginStarted, HandJob, PluginJob
    <2>8. Due(x)
      BY <1>3, <1>4, <2>5, <2>6, <2>7 DEF Heeds, Due
    <2>9. Windows(x)
      BY <1>3, <2>5 DEF Heeds, Windows, Beside, SetUp
    <2>10. Handy(x)
      BY <2>7 DEF Handy
    <2> QED
      BY <2>8, <2>9, <2>10 DEF Heeded
  <1> QED
    BY <1>1, <1>3, <1>5

-----------------------------------------------------------------------------
(* The restart and the self update *)

\* The essential plugins are counted right.
Counted(u) == u.e.left \in 0 .. 3 /\ (u.e.running => u.e.left # 0)

\* What of the restart a message about the update leaves alone.
Unmoved(u, x) ==
    /\ x.t.mixed = u.t.mixed
    /\ ~u.t.mixed =>
         /\ x.b = u.b /\ x.i = u.i /\ x.e.running = u.e.running /\ x.e.begun = u.e.begun
         /\ Remembers(u, x)

\* The update is shown: no queue that is not excepted takes it for its own job.
LEMMA UpdateTold ==
  ASSUME NEW u, Shape(u), Counted(u), Due(u), Windows(u), NEW outcome \in {"none", "ok", "failed"},
         outcome # "none" => u.t.mixed \/ ~(Running(u) \/ u.e.running),
         NEW x \in Told(u, TRUE, outcome, FALSE, FALSE)
  PROVE  Shape(x) /\ Counted(x) /\ Due(x) /\ Windows(x) /\ x.s.active /\ Unmoved(u, x)
  <1> DEFINE c == Closes(u, "protection")
             copies == [active |-> TRUE, outcome |-> outcome, zip |-> FALSE]
             no == FALSE
  <1>1. \E v \in {u, c} : x \in SetInstallProgress(v, TRUE, outcome, FALSE, FALSE)
    BY DEF Told, Then
  <1>2. PICK v \in {u, c} : x \in SetInstallProgress(v, TRUE, outcome, FALSE, FALSE)
    BY <1>1
  <1>3. Same(u, c) /\ Calm(u, c) /\ c.ui = u.ui
    BY ClosesQuiet, ClosesCalm DEF Quiet
  <1> HIDE DEF c
  <1>4. /\ Shape(v) /\ v.b = u.b /\ v.e = u.e /\ v.i = u.i /\ v.reboot = u.reboot
        /\ v.t.mixed = u.t.mixed /\ SameDebt(u.t, v.t) /\ Due(v) /\ Windows(v)
    <2>1. CASE v = u
      BY <2>1 DEF SameDebt
    <2>2. CASE v = c
      <3>1. c.b = u.b
        BY <1>1 DEF Closes, Shape, Fields, c
      <3> QED
        BY <1>3, <2>2, <3>1, CalmKeeps DEF Same, Calm, SameCare
    <2> QED
      BY <1>2, <2>1, <2>2
  <1> DEFINE w0 == [v EXCEPT !.s = copies]
  <1>5. /\ Shape(w0) /\ w0.b = v.b /\ w0.e = v.e /\ w0.i = v.i /\ w0.reboot = v.reboot
        /\ w0.t = v.t /\ w0.open = v.open /\ w0.ui = v.ui /\ w0.s = copies
    <2>1. DOMAIN copies = {"active", "outcome", "zip"}
      OBVIOUS
    <2> HIDE DEF copies
    <2> QED
      BY <1>4, <2>1 DEF Shape, Fields
  <1>6. copies.active
    OBVIOUS
  <1>7. PICK y \in TryAdvance(w0, outcome, no) :
           x = y \/ (outcome # "ok" /\ x \in EssentialAdvance(y, outcome))
    BY <1>2 DEF SetInstallProgress
  <1> HIDE DEF w0, copies, no
  <1>8. outcome \in Outcomes
    BY DEF Outcomes
  <1>9. /\ Beside(w0, y) /\ y.e = w0.e /\ y.reboot = w0.reboot /\ y.t.mixed = w0.t.mixed
        /\ SameDebt(w0.t, y.t)
        /\ ~u.t.mixed => y.b = w0.b /\ y.i = w0.i
    <2>1. /\ Beside(w0, y) /\ y.e = w0.e /\ y.reboot = w0.reboot /\ y.t.mixed = w0.t.mixed
          /\ SameDebt(w0.t, y.t)
          /\ \/ y = w0
             \/ /\ Running(w0)
                /\ w0.b.waiting => w0.b.resolved /\ ~w0.s.active /\ outcome = "none"
                /\ ~w0.b.waiting => outcome \notin {"none", w0.b.last}
             \/ Running(w0) /\ outcome = "failed"
      BY <1>5, <1>7, <1>8, TryAdvanceFacts
    <2>2. Running(w0) <=> Running(u)
      BY <1>4, <1>5 DEF Running
    <2>3. ~u.t.mixed => y = w0
      BY <1>4, <1>5, <1>6, <2>1, <2>2
    <2> QED
      BY <2>1, <2>3
  <1>10. /\ Beside(y, x) /\ x.b = y.b /\ x.t.mixed = y.t.mixed /\ Remembers(y, x) /\ Counted(x)
         /\ ~u.t.mixed => x.i = y.i /\ x.e.running = y.e.running /\ x.e.begun = y.e.begun
    <2>1. Counted(y) /\ Shape(y)
      BY <1>4, <1>5, <1>9 DEF Beside, Counted
    <2>2. CASE x = y
      BY <2>1, <2>2 DEF Beside, Remembers
    <2>3. CASE outcome # "ok" /\ x \in EssentialAdvance(y, outcome)
      <3>1. y.e.left \in 0 .. 3 /\ (y.e.running => y.e.left # 0)
        BY <2>1 DEF Counted
      <3>2. /\ Beside(y, x) /\ x.b = y.b /\ x.t.mixed = y.t.mixed /\ Remembers(y, x)
            /\ \/ x = y
               \/ y.e.running /\ ~x.e.running /\ x.e.left = 0 /\ (outcome # "none" \/ outcome = "ok")
               \/ outcome = "ok"
               \/ /\ x.i = y.i /\ x.e.running = y.e.running /\ x.e.left = y.e.left
                  /\ x.e.begun = y.e.begun
        BY <1>8, <2>1, <2>3, <3>1, EssentialAdvanceFacts
      <3>3. ~u.t.mixed => (outcome # "none" => ~y.e.running)
        BY <1>4, <1>5, <1>9
      <3> QED
        BY <2>1, <2>3, <3>1, <3>2, <3>3 DEF Counted
    <2> QED
      BY <1>7, <2>2, <2>3
  <1>11. /\ Shape(x) /\ x.t.mixed = v.t.mixed /\ x.open = v.open /\ x.ui = v.ui
         /\ x.s.active /\ Remembers(v, x)
         /\ ~u.t.mixed => /\ x.b = v.b /\ x.i = v.i /\ x.e.running = v.e.running
                          /\ x.e.begun = v.e.begun
    BY <1>5, <1>6, <1>9, <1>10 DEF Beside, Remembers, SameDebt
  <1>12. Unmoved(u, x)
    BY <1>4, <1>11 DEF Unmoved, Remembers, SameDebt
  <1>13. Due(x)
    <2>1. Clean(x) => Clean(v) /\ ~u.t.mixed
      BY <1>4, <1>11 DEF Clean, Remembers
    <2>2. ~u.t.mixed => (HandJob(x) <=> HandJob(v)) /\ (PluginJob(x) <=> PluginJob(v))
                        /\ (Running(x) <=> Running(v))
      BY <1>11 DEF HandJob, PluginJob, Running
    <2> QED
      BY <1>4, <1>11, <2>1, <2>2 DEF Due, Remembers
  <1>14. Windows(x)
    BY <1>4, <1>11 DEF Windows, SetUp
  <1> QED
    BY <1>10, <1>11, <1>12, <1>13, <1>14

\* The end of an update beside a queue is excepted.
LEMMA UpdateMixes ==
  ASSUME NEW u, Due(u), Windows(u), Counted(u), NEW v, v.b = u.b, v.e = u.e, v.i = u.i,
         v.open = u.open, v.ui = u.ui, v.reboot = u.reboot, SameDebt(u.t, v.t),
         v.t.mixed <=> (u.t.mixed \/ Running(u) \/ u.e.running)
  PROVE  /\ Due(v) /\ Windows(v) /\ Counted(v)
         /\ v.t.mixed \/ ~(Running(v) \/ v.e.running)
  <1>1. (Clean(v) => Clean(u)) /\ (HandJob(v) <=> HandJob(u)) /\ (PluginJob(v) <=> PluginJob(u))
        /\ (Running(v) <=> Running(u))
    BY DEF Clean, HandJob, PluginJob, Running, SameDebt
  <1>2. Due(v)
    BY <1>1 DEF Due, SameDebt
  <1>3. Windows(v) /\ Counted(v)
    BY DEF Windows, SetUp, Counted
  <1> QED
    BY <1>1, <1>2, <1>3

LEMMA StartUpdateHeeded ==
  ASSUME NEW u, Heeds(u), NEW x \in StartUpdate(u)
  PROVE  Heeded(u, x)
  <1> DEFINE c == [u EXCEPT !.ui.mode = u.ui.back]
             begun == [c EXCEPT !.work = @ \cup {"update"}]
             mixed == c.t.mixed \/ Running(u) \/ u.e.running
             failed == [c EXCEPT !.faults = @ + 1, !.t.mixed = mixed]
  <1>1. \/ x \in Told(begun, TRUE, "none", FALSE, FALSE)
        \/ \E y \in Told(failed, TRUE, "none", FALSE, FALSE) :
              x \in Told(y, TRUE, "failed", FALSE, FALSE)
    BY DEF StartUpdate, Then
  <1> Shape(u)
    BY DEF Heeds, Sound
  <1>2. Calm(u, c) /\ Same(u, c)
    BY PageCalm, PageQuiet DEF Quiet
  <1> HIDE DEF c
  <1>3. Shape(c) /\ Due(c) /\ Windows(c) /\ Counted(c) /\ Running(c) = Running(u) /\ c.e = u.e
    BY <1>2, CalmKeeps
    DEF Heeds, Sound, EssentialSound, Counted, Same, Calm, SameCare, Running
  <1>4. /\ Shape(begun) /\ Calm(c, begun) /\ begun.e = c.e
    <2>1. /\ DOMAIN begun = Fields /\ begun.ui = c.ui /\ begun.open = c.open /\ begun.view = c.view
          /\ begun.b = c.b /\ begun.e = c.e /\ begun.i = c.i /\ begun.s = c.s /\ begun.t = c.t
          /\ begun.reboot = c.reboot
      BY <1>3 DEF Shape, Fields
    <2> HIDE DEF begun
    <2> QED
      BY <1>3, <2>1 DEF Shape, Calm, SameCare, SameDebt, NoPrompt, SetUp
  <1>m. mixed <=> (c.t.mixed \/ Running(c) \/ c.e.running)
    BY <1>3
  <1> HIDE DEF mixed
  <1>5. /\ Shape(failed) /\ failed.b = c.b /\ failed.e = c.e /\ failed.i = c.i
        /\ failed.open = c.open /\ failed.ui = c.ui /\ failed.reboot = c.reboot
        /\ failed.t.mixed = mixed /\ SameDebt(c.t, failed.t)
    BY <1>3 DEF Shape, Fields, NoTruth, SameDebt
  <1> HIDE DEF begun, failed
  <1>6. CASE x \in Told(begun, TRUE, "none", FALSE, FALSE)
    <2>1. Due(begun) /\ Windows(begun) /\ Counted(begun)
      BY <1>3, <1>4, CalmKeeps DEF Counted
    <2> DEFINE o == "none"
    <2>2. o \in {"none", "ok", "failed"} /\ x \in Told(begun, TRUE, o, FALSE, FALSE) /\ o = "none"
      BY <1>6
    <2> HIDE DEF o
    <2>3. Due(x) /\ Windows(x) /\ x.s.active
      BY <1>4, <2>1, <2>2, UpdateTold
    <2> QED
      BY <2>3 DEF Heeded, Handy
  <1>7. ASSUME NEW y \in Told(failed, TRUE, "none", FALSE, FALSE),
               x \in Told(y, TRUE, "failed", FALSE, FALSE)
        PROVE  Heeded(u, x)
    <2>1. /\ Due(failed) /\ Windows(failed) /\ Counted(failed)
          /\ failed.t.mixed \/ ~(Running(failed) \/ failed.e.running)
      BY <1>3, <1>5, <1>m, UpdateMixes
    <2> DEFINE o == "none"
               p == "failed"
    <2>2. /\ o \in {"none", "ok", "failed"} /\ y \in Told(failed, TRUE, o, FALSE, FALSE) /\ o = "none"
          /\ p \in {"none", "ok", "failed"} /\ x \in Told(y, TRUE, p, FALSE, FALSE)
      BY <1>7
    <2> HIDE DEF o, p
    <2>3. Shape(y) /\ Due(y) /\ Windows(y) /\ Counted(y) /\ Unmoved(failed, y)
      BY <1>5, <2>1, <2>2, UpdateTold
    <2>4. y.t.mixed \/ ~(Running(y) \/ y.e.running)
      BY <2>1, <2>3 DEF Unmoved, Running
    <2>5. Due(x) /\ Windows(x) /\ x.s.active
      BY <2>2, <2>3, <2>4, UpdateTold
    <2> QED
      BY <2>5 DEF Heeded, Handy
  <1> QED
    BY <1>1, <1>6, <1>7

LEMMA SettingsHeeded ==
  ASSUME NEW u, Heeds(u), NEW x \in Settings(u)
  PROVE  Heeded(u, x)
  <1>1. x = [u EXCEPT !.ui.mode = u.ui.back] \/ x = Opens(u, "theme") \/ x \in StartUpdate(u)
    BY DEF Settings
  <1> Shape(u)
    BY DEF Heeds, Sound
  <1>2. CASE x = [u EXCEPT !.ui.mode = u.ui.back]
    BY <1>2, PageCalm, CalmHeeded
  <1>3. CASE x = Opens(u, "theme")
    BY <1>3, OpensCalm, CalmHeeded DEF Dialogs, Prompts
  <1> QED
    BY <1>1, <1>2, <1>3, StartUpdateHeeded

\* What of the restart the rest of a frame keeps.
Owes(u) == Due(u) /\ Windows(u)

LEMMA PollUpdateOwes ==
  ASSUME NEW u, Flows(u), Owes(u), NEW x \in PollUpdate(u)
  PROVE  Owes(x)
  <1> DEFINE ended(o) == [u EXCEPT !.work = @ \ {"update"},
                                   !.t.mixed = @ \/ Running(u) \/ u.e.running,
                                   !.faults = IF o = "failed" THEN @ + 1 ELSE @]
  <1>1. \/ x = u
        \/ x \in Told(u, TRUE, "none", FALSE, FALSE)
        \/ \E o \in {"ok", "failed"} : x \in Told(ended(o), TRUE, o, FALSE, FALSE)
    <2> HIDE DEF ended
    <2> QED
      BY DEF PollUpdate, ended
  <1>2. Shape(u) /\ Counted(u) /\ Due(u) /\ Windows(u)
    BY DEF Flows, Sound, EssentialSound, Counted, Owes
  <1>3. CASE x \in Told(u, TRUE, "none", FALSE, FALSE)
    <2> DEFINE o == "none"
    <2>1. o \in {"none", "ok", "failed"} /\ x \in Told(u, TRUE, o, FALSE, FALSE) /\ o = "none"
      BY <1>3
    <2> HIDE DEF o
    <2> QED
      BY <1>2, <2>1, UpdateTold DEF Owes
  <1>4. ASSUME NEW o \in {"ok", "failed"}, x \in Told(ended(o), TRUE, o, FALSE, FALSE)
        PROVE  Owes(x)
    <2> DEFINE v == ended(o)
               mixed == u.t.mixed \/ Running(u) \/ u.e.running
               n == IF o = "failed" THEN u.faults + 1 ELSE u.faults
    <2>1. v = [u EXCEPT !.work = @ \ {"update"}, !.t.mixed = mixed, !.faults = n]
      OBVIOUS
    <2>m. mixed <=> (u.t.mixed \/ Running(u) \/ u.e.running)
      OBVIOUS
    <2>x. x \in Told(v, TRUE, o, FALSE, FALSE)
      BY <1>4
    <2> HIDE DEF v, mixed, n
    <2>2. /\ Shape(v) /\ v.b = u.b /\ v.e = u.e /\ v.i = u.i /\ v.open = u.open /\ v.ui = u.ui
          /\ v.reboot = u.reboot /\ v.t.mixed = mixed /\ SameDebt(u.t, v.t)
      BY <1>2, <2>1 DEF Shape, Fields, NoTruth, SameDebt
    <2>3. /\ Due(v) /\ Windows(v) /\ Counted(v)
          /\ v.t.mixed \/ ~(Running(v) \/ v.e.running)
      BY <1>2, <2>2, <2>m, UpdateMixes
    <2> QED
      BY <1>4, <2>x, <2>2, <2>3, UpdateTold DEF Owes
  <1> QED
    BY <1>1, <1>3, <1>4

\* What is owed while a result is being told: the screen has not yet taken it in.
Bare(u) ==
    Clean(u) =>
      /\ u.t.owed => u.reboot \/ u.e.running \/ u.b.plugin \/ u.i.reboot
      /\ u.t.owed /\ u.e.running /\ ~u.e.begun => u.reboot \/ u.b.plugin \/ u.i.reboot
      /\ u.i.seen /\ PluginJob(u) => u.reboot \/ u.b.plugin \/ u.i.reboot
      /\ u.b.plugin => u.b.phase \in {"Running", "Summary"}
      /\ HandJob(u) => u.b.phase # "Summary" /\ "psp" \notin u.open
      /\ Running(u) /\ u.b.waiting /\ PluginJob(u) => u.e.running

\* An essential plugin that ended well is acknowledged, and the next one starts or none.
LEMMA EssentialOkIdle ==
  ASSUME NEW u, Shape(u), JobSound(u), u.i.reboot, u.e.running, u.e.last = "none",
         NEW outcome, outcome = "ok", NEW x \in EssentialAdvance(u, outcome)
  PROVE  \/ ~PluginJob(x) /\ ~x.i.reboot
         \/ PluginStarted(x.i) /\ x.e.running /\ x.e.begun
  <1> DEFINE left == u.e.left - 1
             begun == TRUE
             v == [u EXCEPT !.e.last = outcome, !.e.left = left, !.e.begun = begun]
  <1>1. x \in KickEssential(Ack(v))
    BY DEF EssentialAdvance
  <1>2. begun
    OBVIOUS
  <1> HIDE DEF left, begun
  <1>3. Shape(v) /\ v.i = u.i /\ v.e.running = u.e.running /\ v.e.begun = begun
    BY DEF Shape, Fields, NoQueue
  <1> HIDE DEF v
  <1>4. v.i.st \in Terminal /\ ~v.i.zip
    BY <1>3 DEF JobSound, Terminal
  <1>5. Shape(Ack(v)) /\ Ack(v).i = NoJob /\ Ack(v).e = v.e
    BY <1>3, <1>4, AckFacts DEF Beside
  <1> DEFINE a == Ack(v)
  <1>6. Shape(a) /\ a.i = NoJob /\ a.e = v.e /\ x \in KickEssential(a)
    BY <1>1, <1>5
  <1> HIDE DEF a
  <1>7. \/ x.i = NoJob \/ FailedAtOnce(x.i)
        \/ PluginStarted(x.i) /\ x.e.running = a.e.running /\ x.e.begun = a.e.begun
    BY <1>6, KickFacts
  <1>8. a.e.running /\ a.e.begun
    BY <1>2, <1>3, <1>6
  <1>9. x.i = NoJob \/ FailedAtOnce(x.i) => ~PluginJob(x) /\ ~x.i.reboot
    BY DEF NoJob, FailedAtOnce, PluginJob
  <1> QED
    BY <1>7, <1>8, <1>9

\* A batch closes the good result it goes on from.
LEMMA TryClosed ==
  ASSUME NEW u, Shape(u), Running(u), ~u.b.waiting, u.i.st \in Terminal, ~u.i.zip,
         NEW outcome, outcome = "ok", outcome # u.b.last, NEW needs,
         NEW x \in TryAdvance(u, outcome, needs)
  PROVE  x.i = NoJob \/ AtWork(x)
  <1>1. CASE ~More(u.b)
    <2> DEFINE aborted == TRUE
    <2>0. outcome \notin {"none", u.b.last}
      OBVIOUS
    <2>1. x = FinishReport(u, aborted)
      BY <1>1, <2>0 DEF TryAdvance
    <2> HIDE DEF aborted
    <2>2. x.i = Ack(u).i
      BY <2>1, FinishFacts
    <2> QED
      BY <2>2, AckFacts
  <1>2. CASE More(u.b)
    <2> DEFINE r == Step(u.b)
               ok == u.b.filesOk /\ (outcome = "ok" \/ ~Spoils(u.b, u.b.at))
               plugin == u.b.plugin \/ (u.b.queue[u.b.at] = "plugin" /\ needs)
               seen == [u EXCEPT !.b.last = outcome, !.b.filesOk = ok]
               done == [seen EXCEPT !.b.results[r] = "Completed", !.b.plugin = plugin]
    <2>1. seen.b.plugin = u.b.plugin
      BY DEF Shape, Fields, NoBatch
    <2>2. x \in Goes(Ack(done))
      <3> HIDE DEF seen, plugin
      <3> QED
        BY <1>2, <2>1 DEF TryAdvance, plugin, seen
    <2>3. Shape(seen) /\ seen.i = u.i /\ seen.b.phase = u.b.phase /\ seen.b.waiting = u.b.waiting
      <3> HIDE DEF ok
      <3> QED
        BY DEF Shape, Fields, NoBatch
    <2>4. Shape(done) /\ done.i = u.i /\ Running(done) /\ ~done.b.waiting
      <3> HIDE DEF seen, plugin, r
      <3> QED
        BY <2>3 DEF Shape, Fields, NoBatch, Running
    <2> DEFINE a == Ack(done)
    <2> HIDE DEF done
    <2>5. Shape(a) /\ a.i = NoJob /\ Running(a) /\ ~a.b.waiting
      BY <2>4, AckFacts DEF Beside, Running
    <2>6. x \in Goes(a)
      BY <2>2
    <2> HIDE DEF a
    <2> QED
      BY <2>5, <2>6, GoesFacts DEF Released
  <1> QED
    BY <1>1, <1>2

\* A batch that is told of a result.
LEMMA TryOwes ==
  ASSUME NEW u, Shape(u), Bare(u), JobSound(u), NEW outcome, outcome = OutcomeOf(u.i),
         u.s.active <=> u.i.st # "Idle", u.s.zip <=> u.i.zip,
         Running(u) /\ ~u.b.waiting => u.b.last = "unset", NEW needs,
         u.i.reboot => u.reboot \/ u.b.plugin \/ Copied(u, outcome, needs),
         NEW x \in TryAdvance(u, outcome, needs)
  PROVE  Due(x) /\ (HandJob(x) => x.i = u.i)
  <1>o. /\ outcome \in Outcomes
        /\ outcome = "ok" <=> u.i.st = "Completed"
        /\ outcome = "none" <=> u.i.st \notin Terminal
    BY DEF OutcomeOf, Outcomes, Terminal
  <1>1. /\ Beside(u, x) /\ x.e = u.e /\ x.reboot = u.reboot /\ x.t.mixed = u.t.mixed
        /\ SameDebt(u.t, x.t)
        /\ u.b.plugin => x.b.plugin
        /\ Copied(u, outcome, needs) => x.b.plugin
        /\ \/ x = u
           \/ /\ Running(u)
              /\ u.b.waiting => ~u.s.active /\ outcome = "none"
              /\ ~u.b.waiting => outcome \notin {"none", u.b.last}
              /\ \/ x.b.phase = "Summary" /\ Released(u, x)
                 \/ AtWork(x)
           \/ /\ Running(u) /\ ~u.b.waiting /\ outcome = "failed" /\ u.s.zip
              /\ Running(x) /\ x.b.waiting /\ ~x.b.resolved
              /\ Step(x.b) = Step(u.b) /\ x.i = u.i
    BY <1>o, TryAdvanceFacts
  <1>h. HandJob(x) => x.i = u.i
    BY <1>1 DEF Released, AtWork, HandJob, PluginJob, Running, NoJob
  <1> SUFFICES ASSUME Clean(x) PROVE Due(x)
    BY <1>h DEF Due
  <1>2. Clean(u)
    BY <1>1 DEF Clean, SameDebt
  <1>3. CASE x = u
    <2>1. ~(u.b.plugin = FALSE /\ Copied(u, outcome, needs))
      BY <1>1, <1>3
    <2>2. u.i.reboot => u.reboot \/ u.b.plugin
      BY <1>1, <1>3
    <2> QED
      BY <1>2, <1>3, <2>2 DEF Bare, Due
  <1>4. CASE Running(u) /\ AtWork(x)
    BY <1>1, <1>2, <1>4 DEF Bare, Due, AtWork, SameDebt, HandJob, Running
  <1>5. CASE Running(u) /\ x.i = u.i /\ Running(x) /\ outcome = "failed" /\ u.s.zip
    <2>1. ~PluginJob(x) /\ ~x.i.reboot
      BY <1>5 DEF JobSound, PluginJob, FileKinds
    <2> QED
      BY <1>1, <1>2, <1>5, <2>1 DEF Bare, Due, SameDebt, HandJob, Running
  <1>6. CASE /\ Running(u) /\ x.b.phase = "Summary" /\ Released(u, x) /\ ~AtWork(x)
             /\ u.b.waiting => ~u.s.active /\ outcome = "none"
             /\ ~u.b.waiting => outcome \notin {"none", u.b.last}
    <2>1. ASSUME u.i.st = "Completed"
          PROVE  x.i = NoJob
      <3>1. ~u.b.waiting /\ outcome = "ok" /\ u.b.last = "unset" /\ ~u.i.zip
        BY <1>o, <1>6, <2>1 DEF JobSound
      <3>2. outcome # u.b.last /\ u.i.st \in Terminal
        BY <2>1, <3>1 DEF Terminal
      <3> QED
        BY <1>6, <3>1, <3>2, TryClosed
    <2>2. ~PluginJob(x) /\ ~x.i.reboot
      <3>1. PluginJob(x) \/ x.i.reboot => x.i = u.i
        BY <1>6 DEF Released, PluginJob, NoJob
      <3>2. PluginJob(x) \/ x.i.reboot => x.i.st \in {"Working", "Paused", "Completed"}
        BY <3>1 DEF JobSound, PluginJob
      <3>3. u.i.st \in {"Working", "Paused"} => outcome = "none" /\ u.s.active
        BY <1>o DEF Terminal
      <3>4. u.i.st \notin {"Working", "Paused"}
        BY <1>6, <3>3
      <3>5. x.i = NoJob => ~(x.i.st \in {"Working", "Paused", "Completed"})
        BY DEF NoJob
      <3> QED
        BY <2>1, <3>1, <3>2, <3>4, <3>5
    <2> QED
      BY <1>1, <1>2, <1>6, <2>2 DEF Bare, Due, SameDebt, HandJob, Running
  <1> QED
    BY <1>1, <1>3, <1>4, <1>5, <1>6

\* The screen is told of the job: whoever has to ask for the restart knows of it.
LEMMA HeardOwes ==
  ASSUME NEW v, Sound(v), Bare(v), Windows(v),
         NEW outcome, outcome = OutcomeOf(v.i), NEW active, active <=> v.i.st # "Idle",
         NEW needs, needs <=> v.i.reboot, NEW zip, zip <=> v.i.zip,
         NEW x \in SetInstallProgress(v, active, outcome, needs, zip)
  PROVE  Owes(x) /\ Attended(x)
  <1> DEFINE copies == [active |-> active, outcome |-> outcome, zip |-> zip]
             w0 == [v EXCEPT !.s = copies]
             due == needs /\ outcome = "ok"
             first == IF due THEN RestartIsDue(w0, outcome) ELSE {w0}
             batched == UNION {TryAdvance(z, outcome, needs) : z \in first}
  <1>o. /\ outcome \in Outcomes
        /\ outcome = "ok" <=> v.i.st = "Completed"
        /\ outcome = "failed" <=> v.i.st = "Failed"
        /\ outcome = "none" <=> v.i.st \notin Terminal
    BY DEF OutcomeOf, Outcomes, Terminal
  <1>1. /\ Shape(w0) /\ w0.b = v.b /\ w0.e = v.e /\ w0.i = v.i /\ w0.reboot = v.reboot
        /\ w0.t = v.t /\ w0.open = v.open /\ w0.ui = v.ui /\ w0.s = copies
    <2>1. DOMAIN copies = {"active", "outcome", "zip"}
      OBVIOUS
    <2> HIDE DEF copies
    <2> QED
      BY <2>1 DEF Sound, Shape, Fields
  <1>s. (w0.s.active <=> w0.i.st # "Idle") /\ (w0.s.zip <=> w0.i.zip)
    BY <1>1
  <1>d. due <=> v.i.reboot
    BY <1>o DEF Sound, JobSound
  <1>0. x \in IF outcome = "ok" THEN batched
              ELSE UNION {EssentialAdvance(y, outcome) : y \in batched}
    BY DEF SetInstallProgress
  <1>y. PICK y \in batched : IF outcome = "ok" THEN x = y ELSE x \in EssentialAdvance(y, outcome)
    <2> HIDE DEF batched
    <2> QED
      BY <1>0
  <1>z. PICK z \in first : y \in TryAdvance(z, outcome, needs)
    <2> HIDE DEF first
    <2> QED
      BY <1>y
  <1>f. first = IF due THEN RestartIsDue(w0, outcome) ELSE {w0}
    OBVIOUS
  <1> HIDE DEF w0, copies, first, batched, due
  <1>w. /\ Bare(w0) /\ JobSound(w0) /\ EssentialSound(w0) /\ BatchSound(w0)
        /\ ~w0.t.mixed /\ Running(w0) => AtStep(w0)
    <2>1. /\ (Clean(w0) <=> Clean(v)) /\ (HandJob(w0) <=> HandJob(v))
          /\ (PluginJob(w0) <=> PluginJob(v)) /\ (Running(w0) <=> Running(v))
      BY <1>1 DEF Clean, HandJob, PluginJob, Running
    <2>2. Bare(w0)
      BY <1>1, <2>1 DEF Bare
    <2>3. JobSound(w0) /\ EssentialSound(w0) /\ BatchSound(w0)
      BY <1>1, <2>1 DEF Sound, JobSound, EssentialSound, BatchSound
    <2>4. ~w0.t.mixed /\ Running(w0) => AtStep(w0)
      BY <1>1, <2>1 DEF Sound, StorySound, AtStep, Step
    <2> QED
      BY <2>2, <2>3, <2>4
  <1>e. /\ w0.e.left \in 0 .. 3 /\ (w0.e.running => w0.e.left # 0)
        /\ w0.e.running => w0.e.last = "none"
        /\ w0.e.running /\ ~w0.t.mixed => /\ Running(w0) => w0.b.waiting /\ w0.b.resolved
                                          /\ w0.s.active
    BY <1>w, <1>s DEF EssentialSound
  \* The first step.
  <1>2. /\ Beside(w0, z) /\ z.b = w0.b /\ z.t.mixed = w0.t.mixed /\ Remembers(w0, z)
        /\ ~due => z = w0
        /\ due /\ w0.e.running => z \in EssentialAdvance(w0, outcome)
        /\ due /\ ~w0.e.running =>
             /\ z.e = w0.e /\ z.i = w0.i /\ z.t = w0.t
             /\ z.reboot <=> (w0.reboot \/ w0.b.phase \notin {"Running", "Summary"})
        /\ Shape(z)
    <2>1. CASE ~due
      BY <1>1, <1>z, <1>f, <2>1 DEF Beside, Remembers
    <2>2. CASE due /\ w0.e.running
      <3>1. z \in EssentialAdvance(w0, outcome)
        BY <1>z, <1>f, <2>2 DEF RestartIsDue
      <3>2. Beside(w0, z) /\ z.b = w0.b /\ z.t.mixed = w0.t.mixed /\ Remembers(w0, z)
        BY <1>1, <1>o, <1>e, <3>1, EssentialAdvanceFacts
      <3> QED
        BY <2>2, <3>1, <3>2 DEF Beside
    <2>3. CASE due /\ ~w0.e.running
      <3> DEFINE m == w0.reboot \/ w0.b.phase \notin {"Running", "Summary"}
      <3>1. z = [w0 EXCEPT !.reboot = m]
        BY <1>z, <1>f, <2>3 DEF RestartIsDue
      <3>m. m <=> (w0.reboot \/ w0.b.phase \notin {"Running", "Summary"})
        OBVIOUS
      <3> HIDE DEF m
      <3>2. Beside(w0, z) /\ z.b = w0.b /\ z.e = w0.e /\ z.i = w0.i /\ z.t = w0.t /\ z.reboot = m
        BY <1>1, <3>1 DEF Shape, Fields, Beside
      <3> QED
        BY <2>3, <3>m, <3>2 DEF Remembers, Beside
    <2> QED
      BY <2>1, <2>2, <2>3
  <1>3. /\ Beside(z, y) /\ y.e = z.e /\ y.reboot = z.reboot /\ y.t.mixed = z.t.mixed
        /\ SameDebt(z.t, y.t) /\ Shape(y)
    <2>1. /\ Beside(z, y) /\ y.e = z.e /\ y.reboot = z.reboot /\ y.t.mixed = z.t.mixed
          /\ SameDebt(z.t, y.t)
      BY <1>2, <1>z, <1>o, TryAdvanceFacts
    <2> QED
      BY <2>1 DEF Beside
  <1>k. outcome # "ok" => z = w0
    BY <1>2, <1>d, <1>o DEF Sound, JobSound
  <1>4. /\ Beside(y, x) /\ x.b = y.b /\ x.t.mixed = y.t.mixed /\ Remembers(y, x)
        /\ outcome = "ok" => x = y
        /\ outcome # "ok" => x \in EssentialAdvance(y, outcome)
    <2>1. CASE outcome = "ok"
      BY <1>y, <1>3, <2>1 DEF Beside, Remembers
    <2>2. CASE outcome # "ok"
      <3>1. x \in EssentialAdvance(y, outcome)
        BY <1>y, <2>2
      <3>2. y.e.left \in 0 .. 3 /\ (y.e.running => y.e.left # 0)
        BY <1>3, <1>k, <1>e, <2>2
      <3>3. Beside(y, x) /\ x.b = y.b /\ x.t.mixed = y.t.mixed /\ Remembers(y, x)
        BY <1>o, <1>3, <3>1, <3>2, EssentialAdvanceFacts
      <3> QED
        BY <2>2, <3>1, <3>3
    <2> QED
      BY <2>1, <2>2
  <1>5. /\ x.open = v.open /\ x.ui = v.ui /\ x.s = copies /\ x.t.mixed = v.t.mixed
        /\ Windows(x)
    <2>1. x.open = v.open /\ x.ui = v.ui /\ x.s = copies /\ x.t.mixed = v.t.mixed
      BY <1>1, <1>2, <1>3, <1>4 DEF Beside
    <2> QED
      BY <2>1 DEF Windows, SetUp
  <1>a. x.s.active <=> v.i.st # "Idle"
    BY <1>1, <1>5, <1>s
  <1> SUFFICES ASSUME Clean(x) PROVE Due(x) /\ (HandJob(x) => x.i = v.i)
    <2>1. x.i = v.i /\ PluginJob(x) => x.s.active
      BY <1>a DEF PluginJob
    <2> QED
      BY <1>5, <2>1 DEF Due, Owes, Attended, HandJob
  <1>6. Clean(y) /\ Clean(z) /\ Clean(w0)
    BY <1>1, <1>2, <1>3, <1>4 DEF Clean, Remembers, SameDebt
  \* A good essential plugin.
  <1>7. CASE due /\ w0.e.running
    <2>1. y = z
      <3>1. Running(z) => z.b.waiting /\ z.s.active
        BY <1>1, <1>2, <1>e, <1>6, <1>7 DEF Running, Beside, Clean
      <3> QED
        BY <1>2, <1>z, <1>o, <3>1, TryAdvanceFacts
    <2>2. x = z
      BY <1>4, <1>7, <1>d, <2>1 DEF due
    <2>3. outcome = "ok"
      BY <1>7 DEF due
    <2>4. \/ ~PluginJob(z) /\ ~z.i.reboot
          \/ PluginStarted(z.i) /\ z.e.running /\ z.e.begun
      BY <1>1, <1>2, <1>7, <1>d, <1>e, <1>w, <2>3, EssentialOkIdle
    <2>5. z.e.running \/ z.reboot
      <3>1. \/ z = w0 /\ (w0.e.running => outcome = w0.e.last)
            \/ w0.e.running /\ ~z.e.running /\ (w0.e.begun \/ outcome = "ok" => z.reboot \/ z.t.dropped)
            \/ z.e.running
            \/ outcome = "none"
        BY <1>1, <1>2, <1>7, <1>e, <1>o, EssentialAdvanceFacts
      <3> QED
        BY <1>6, <1>7, <1>e, <2>3, <3>1 DEF Clean
    <2>6. z.e.running => PluginStarted(z.i) /\ z.e.begun
      <3>1. \/ z = w0 /\ (w0.e.running => outcome = w0.e.last)
            \/ ~z.e.running
            \/ PluginStarted(z.i) /\ z.e.begun
            \/ outcome = "none"
        BY <1>1, <1>2, <1>7, <1>e, <1>o, EssentialAdvanceFacts
      <3> QED
        BY <1>7, <1>e, <2>3, <3>1
    <2>7. z.b.plugin => z.b.phase \in {"Running", "Summary"}
      BY <1>w, <1>2, <1>6 DEF Bare
    <2>8. ~HandJob(z) /\ (PluginJob(z) => z.e.running /\ ~z.i.seen) /\ ~z.i.reboot
      BY <2>4 DEF HandJob, PluginStarted
    <2> QED
      BY <2>2, <2>5, <2>6, <2>7, <2>8 DEF Due
  <1>8. CASE ~(due /\ w0.e.running)
    <2>1. z.i = w0.i /\ z.e = w0.e /\ z.t = w0.t /\ z.s = w0.s /\ z.open = w0.open /\ z.b = w0.b
          /\ (w0.reboot => z.reboot)
      BY <1>2, <1>8 DEF Beside, Remembers
    <2>2. (HandJob(z) <=> HandJob(w0)) /\ (PluginJob(z) <=> PluginJob(w0))
          /\ (Running(z) <=> Running(w0))
      BY <2>1 DEF HandJob, PluginJob, Running
    <2>3. Bare(z)
      BY <1>6, <1>w, <2>1, <2>2 DEF Bare
    <2>4. JobSound(z) /\ outcome = OutcomeOf(z.i) /\ (z.s.active <=> z.i.st # "Idle")
          /\ (z.s.zip <=> z.i.zip)
      BY <1>1, <1>w, <1>s, <2>1 DEF JobSound
    <2>5. Running(z) /\ ~z.b.waiting => z.b.last = "unset"
      BY <1>w, <1>6, <2>1, <2>2 DEF BatchSound, Clean
    <2>6. z.i.reboot => z.reboot \/ z.b.plugin \/ Copied(z, outcome, needs)
      <3> SUFFICES ASSUME z.i.reboot PROVE z.reboot \/ Copied(z, outcome, needs)
        OBVIOUS
      <3>1. due /\ ~w0.e.running /\ outcome = "ok" /\ needs
        BY <1>1, <1>8, <1>d, <2>1 DEF due
      <3>2. z.reboot <=> (w0.reboot \/ w0.b.phase \notin {"Running", "Summary"})
        BY <1>2, <3>1
      <3>3. PluginJob(w0) /\ w0.i.kind = "plugin"
        BY <1>w, <2>1 DEF JobSound, PluginJob
      <3>4. w0.b.phase # "Summary"
        <4>1. w0.b.phase = "Summary" => HandJob(w0)
          BY <3>1, <3>3 DEF HandJob, Running
        <4> QED
          BY <1>w, <1>6, <4>1 DEF Bare
      <3>5. Running(w0) => ~w0.b.waiting
        BY <1>w, <1>6, <3>1, <3>3 DEF Bare
      <3>6. Running(w0) => More(z.b) /\ z.b.queue[z.b.at] = "plugin"
        BY <1>w, <1>6, <2>1, <3>3, <3>5 DEF AtStep, More, Clean
      <3>7. Running(w0) => Copied(z, outcome, needs)
        BY <2>1, <2>2, <2>5, <3>1, <3>5, <3>6 DEF Copied
      <3> QED
        BY <3>2, <3>4, <3>7 DEF Running
    <2>7. Due(y) /\ (HandJob(y) => y.i = z.i)
      BY <1>2, <1>z, <2>3, <2>4, <2>5, <2>6, TryOwes
    <2>8. CASE outcome = "ok"
      BY <1>1, <1>4, <2>1, <2>7, <2>8
    <2>9. CASE outcome # "ok"
      <3>1. z = w0 /\ ~w0.i.reboot
        BY <1>1, <1>k, <1>o, <2>9 DEF Sound, JobSound
      <3>2. y.e.left \in 0 .. 3 /\ (y.e.running => y.e.left # 0)
        BY <1>3, <1>e, <3>1
      <3>3. \/ x = y
            \/ /\ y.e.running /\ ~x.e.running
               /\ y.e.begun => x.reboot \/ x.t.dropped
               /\ x.i = y.i /\ outcome # "none"
            \/ x.i = y.i /\ x.e.running = y.e.running /\ x.e.begun = y.e.begun
        BY <1>o, <1>3, <1>4, <2>9, <3>2, EssentialAdvanceFacts
      <3>4. x.b = y.b /\ Remembers(y, x) /\ x.open = y.open
        BY <1>4 DEF Beside
      <3>5. CASE x = y
        BY <1>1, <2>1, <2>7, <3>5
      <3>6. CASE x.i = y.i /\ x.e.running = y.e.running /\ x.e.begun = y.e.begun
        <4>1. (HandJob(x) <=> HandJob(y)) /\ (PluginJob(x) <=> PluginJob(y))
              /\ (Running(x) <=> Running(y))
          BY <3>4, <3>6 DEF HandJob, PluginJob, Running
        <4>2. Due(x)
          BY <1>6, <2>7, <3>4, <3>6, <4>1 DEF Due, Remembers
        <4> QED
          BY <1>1, <2>1, <2>7, <3>6, <4>1, <4>2
      <3>7. CASE /\ y.e.running /\ ~x.e.running
                 /\ y.e.begun => x.reboot \/ x.t.dropped
                 /\ x.i = y.i /\ outcome # "none"
        <4>1. w0.e.running /\ w0.i.st # "Completed" /\ w0.i.st \in Terminal
          BY <1>1, <1>3, <1>o, <2>9, <3>1, <3>7
        <4>2. Running(w0) => w0.b.waiting /\ w0.s.active
          BY <1>e, <1>6, <4>1 DEF Clean
        <4>3. y = w0
          BY <1>2, <1>z, <1>o, <3>1, <4>2, TryAdvanceFacts
        <4>4. ~PluginJob(x) /\ ~x.i.reboot
          BY <3>1, <3>7, <4>1, <4>3 DEF PluginJob, Terminal
        <4>5. ~HandJob(x)
          BY <4>4 DEF HandJob
        <4>6. x.t.owed => x.reboot \/ x.b.plugin
          <5>1. y.t.owed /\ ~y.e.begun => y.reboot \/ y.b.plugin \/ y.i.reboot
            BY <1>6, <2>7, <3>7 DEF Due
          <5>2. ~y.i.reboot
            BY <3>1, <4>3
          <5> QED
            BY <3>4, <3>7, <5>1, <5>2 DEF Remembers, Clean
        <4>7. x.b.plugin => x.b.phase \in {"Running", "Summary"}
          BY <1>6, <2>7, <3>4 DEF Due
        <4> QED
          BY <3>7, <4>4, <4>5, <4>6, <4>7 DEF Due
      <3> QED
        BY <3>3, <3>5, <3>6, <3>7
    <2> QED
      BY <2>8, <2>9
  <1> QED
    BY <1>7, <1>8

LEMMA PolledOwes ==
  ASSUME NEW u, Flows(u), Owes(u), NEW x \in Polled(u)
  PROVE  Owes(x) /\ Attended(x)
  <1> DEFINE seen == u.i.seen \/ u.i.st \in Terminal
             v == [u EXCEPT !.i.seen = seen]
             active == u.i.st # "Idle"
             outcome == OutcomeOf(u.i)
             needs == u.i.reboot
             zip == u.i.zip
  <1>1. PICK y \in Told(v, active, outcome, needs, zip) : x \in TimesOut(y)
    BY DEF Polled, Then, Seen
  <1>e. (active <=> u.i.st # "Idle") /\ outcome = OutcomeOf(u.i) /\ needs = u.i.reboot /\ zip = u.i.zip
    OBVIOUS
  <1> HIDE DEF seen
  <1>2. /\ Shape(v) /\ v.b = u.b /\ v.e = u.e /\ v.s = u.s /\ v.t = u.t /\ v.open = u.open
        /\ v.work = u.work /\ v.ui = u.ui /\ v.stage = u.stage /\ v.reboot = u.reboot
        /\ v.i.st = u.i.st /\ v.i.kind = u.i.kind /\ v.i.of = u.i.of /\ v.i.zip = u.i.zip
        /\ v.i.reboot = u.i.reboot /\ v.i.seen = seen
    BY DEF Flows, Sound, Shape, Fields, NoJob
  <1> HIDE DEF v, active, outcome, needs, zip
  <1>3. StorySound(v)
    BY <1>2, StoryKeeps DEF Flows, Sound, SameTale, OutcomeOf
  <1>4. Sound(v)
    BY <1>2, <1>3
    DEF Flows, Sound, JobSound, EssentialSound, BatchSound, StorageSound, AtStorage, Running
  <1>5. Bare(v) /\ Windows(v)
    <2>1. /\ (Clean(v) <=> Clean(u)) /\ (HandJob(v) <=> HandJob(u))
          /\ (PluginJob(v) <=> PluginJob(u)) /\ (Running(v) <=> Running(u))
      BY <1>2 DEF Clean, HandJob, PluginJob, Running
    <2>2. Windows(v)
      BY <1>2 DEF Owes, Windows, SetUp
    <2>3. v.i.seen /\ PluginJob(v) => (u.i.seen /\ PluginJob(u)) \/ v.i.reboot
      BY <1>2, <2>1, <1>4 DEF Sound, JobSound, PluginJob, Terminal, seen
    <2>4. Bare(v)
      BY <1>2, <2>1, <2>3 DEF Owes, Due, Bare
    <2> QED
      BY <2>2, <2>4
  <1> DEFINE dark == IF active /\ outcome = "none" THEN {v, Closes(v, "protection")}
                     ELSE {Closes(v, "protection")}
             stale == ~active /\ v.s.outcome \in {"ok", "failed"} /\ v.ui.filter = "state"
             fresh(d) == IF stale THEN [d EXCEPT !.view = <<>>] ELSE d
  <1>6. PICK d \in dark : y \in SetInstallProgress(fresh(d), active, outcome, needs, zip)
    BY <1>1 DEF Told, Then
  <1> DEFINE f == fresh(d)
  <1>7. d = v \/ d = [v EXCEPT !.open = @ \ {"protection"}]
    BY <1>6 DEF Closes
  <1>8. /\ Shape(d) /\ d.b = v.b /\ d.e = v.e /\ d.i = v.i /\ d.s = v.s /\ d.t = v.t
        /\ d.reboot = v.reboot /\ d.open \in {v.open, v.open \ {"protection"}}
        /\ d.work = v.work /\ d.ui = v.ui /\ d.stage = v.stage
    BY <1>2, <1>7 DEF Shape, Fields
  <1>9. /\ Shape(f) /\ f.b = v.b /\ f.e = v.e /\ f.i = v.i /\ f.s = v.s /\ f.t = v.t
        /\ f.reboot = v.reboot /\ f.open \in {v.open, v.open \ {"protection"}}
        /\ f.work = v.work /\ f.ui = v.ui /\ f.stage = v.stage
    <2> HIDE DEF stale
    <2> QED
      BY <1>8 DEF Shape, Fields
  <1>10. y \in SetInstallProgress(f, active, outcome, needs, zip)
    BY <1>6
  <1> HIDE DEF f, dark
  <1>11. Same(v, f)
    BY <1>9 DEF Same, AtStorage
  <1>12. Sound(f)
    BY <1>4, <1>11, SameSound
  <1>13. Bare(f) /\ Windows(f)
    <2>1. /\ (Clean(f) <=> Clean(v)) /\ (HandJob(f) <=> HandJob(v))
          /\ (PluginJob(f) <=> PluginJob(v)) /\ (Running(f) <=> Running(v))
      BY <1>9 DEF Clean, HandJob, PluginJob, Running
    <2> QED
      BY <1>5, <1>9, <2>1 DEF Bare, Windows, SetUp
  <1>14. outcome = OutcomeOf(f.i) /\ (active <=> f.i.st # "Idle") /\ (needs <=> f.i.reboot)
         /\ (zip <=> f.i.zip)
    BY <1>2, <1>9, <1>e DEF OutcomeOf
  <1>15. Owes(y) /\ Attended(y)
    BY <1>10, <1>12, <1>13, <1>14, HeardOwes
  <1>16. CASE x = y
    BY <1>15, <1>16
  <1>17. CASE y.i.st = "Completed" /\ ~y.i.reboot /\ x = Ack(y)
    <2>0. Shape(y)
      <3>1. Sound(v) /\ AtPoll(v) /\ Tells(v, active, outcome, needs, zip)
        <4>1. AtPoll(v)
          BY <1>2 DEF Flows, AtPoll, AtStorage, PluginJob
        <4>2. /\ outcome \in Outcomes /\ (outcome = "failed" <=> v.i.st = "Failed")
              /\ outcome = "ok" <=> v.i.st = "Completed"
          BY <1>2, <1>e DEF OutcomeOf, Outcomes
        <4>3. v.e.running /\ ~v.t.mixed => active
          BY <1>2, <1>4, <1>e DEF Sound, EssentialSound
        <4>4. outcome = "failed" /\ zip => v.i.st = "Failed" /\ v.i.zip
          BY <1>2, <1>e, <4>2
        <4>5. needs /\ outcome = "ok" => PluginJob(v)
          BY <1>2, <1>4, <1>e, <4>2 DEF Sound, JobSound, PluginJob
        <4>6. Hears(v, outcome, zip)
          BY <1>2, <1>e DEF Hears, OutcomeOf
        <4> QED
          BY <1>4, <4>1, <4>2, <4>3, <4>4, <4>5, <4>6 DEF Tells
      <3> QED
        BY <1>1, <3>1, ToldSound
    <2>1. /\ Beside(y, x) /\ x.b = y.b /\ x.e = y.e /\ x.t = y.t /\ x.reboot = y.reboot
          /\ x.i = y.i \/ x.i = NoJob
      BY <1>17, <2>0, AckFacts
    <2>2. /\ (Clean(x) <=> Clean(y)) /\ (HandJob(x) => HandJob(y))
          /\ (PluginJob(x) => PluginJob(y) /\ x.i = y.i) /\ (Running(x) <=> Running(y))
          /\ ~x.i.reboot
      BY <1>17, <2>1 DEF Clean, HandJob, PluginJob, Running, NoJob
    <2>3. Due(x)
      BY <1>15, <1>17, <2>1, <2>2 DEF Owes, Due, Beside
    <2>4. Windows(x) /\ Attended(x)
      BY <1>15, <2>1, <2>2 DEF Owes, Windows, SetUp, Attended, Beside
    <2> QED
      BY <2>3, <2>4 DEF Owes
  <1> QED
    BY <1>1, <1>16, <1>17 DEF TimesOut

-----------------------------------------------------------------------------
(* The restart a plugin needs, through the rest of a frame *)

LEMMA CalmOwes ==
  ASSUME NEW u, Owes(u), NEW x, Calm(u, x)
  PROVE  Owes(x) /\ (Attended(u) => Attended(x))
  BY CalmKeeps DEF Owes

LEMMA SameCalm ==
  ASSUME NEW u, NEW x, Same(u, x), x.open \cap Prompts \subseteq u.open,
         x.ui.tab = u.ui.tab, x.ui.psp <=> u.ui.psp
  PROVE  Calm(u, x)
  BY SameCares DEF Calm, NoPrompt, SetUp

LEMMA AutoKeepOwes ==
  ASSUME NEW u, Flows(u), Owes(u), NEW x \in AutoKeep(u)
  PROVE  Owes(x)
  <1> DEFINE v == [u EXCEPT !.b.tried = TRUE]
  <1>1. PICK y \in ResolveRecovery(v, TRUE) : x = IF y.b.resolved THEN y
                                                ELSE [y EXCEPT !.b.autoFailed = TRUE]
    BY DEF AutoKeep
  <1> DEFINE keep == TRUE
  <1>k. y \in ResolveRecovery(v, keep)
    BY <1>1
  <1> HIDE DEF keep
  <1>2. /\ Shape(v) /\ v.e = u.e /\ v.i = u.i /\ v.s = u.s /\ v.reboot = u.reboot /\ v.t = u.t
        /\ v.open = u.open /\ v.ui = u.ui /\ v.b.phase = u.b.phase /\ v.b.waiting = u.b.waiting
        /\ v.b.plugin = u.b.plugin /\ v.b.resolved = u.b.resolved
    BY DEF Flows, Sound, Shape, Fields, NoBatch
  <1> HIDE DEF v
  <1>3. /\ Beside(v, y) /\ y.e = v.e /\ y.reboot = v.reboot /\ y.t = v.t
        /\ y.b.phase = v.b.phase /\ y.b.waiting = v.b.waiting /\ y.b.plugin = v.b.plugin
        /\ \/ y.i = v.i
           \/ Running(v) /\ v.b.waiting /\ ~v.b.resolved /\ y.i = NoJob
    BY <1>2, <1>k, ResolveFacts
  <1>4. /\ x.e = y.e /\ x.i = y.i /\ x.reboot = y.reboot /\ x.t = y.t /\ x.open = y.open
        /\ x.ui = y.ui /\ x.b.phase = y.b.phase /\ x.b.waiting = y.b.waiting
        /\ x.b.plugin = y.b.plugin
    <2>1. CASE x = y
      BY <2>1
    <2>2. CASE x = [y EXCEPT !.b.autoFailed = TRUE]
      BY <1>3, <2>2 DEF Beside, Shape, Fields, NoBatch
    <2> QED
      BY <1>1, <2>1, <2>2
  <1>5. /\ x.e = u.e /\ x.reboot = u.reboot /\ x.t = u.t /\ x.open = u.open /\ x.ui = u.ui
        /\ x.b.phase = u.b.phase /\ x.b.waiting = u.b.waiting /\ x.b.plugin = u.b.plugin
        /\ x.i = u.i \/ (Running(u) /\ u.b.waiting /\ ~u.b.resolved /\ x.i = NoJob)
    BY <1>2, <1>3, <1>4 DEF Beside, Running
  <1>6. Windows(x)
    BY <1>5 DEF Owes, Windows, SetUp
  <1>7. /\ (Clean(x) <=> Clean(u)) /\ (Running(x) <=> Running(u))
        /\ PluginJob(x) => PluginJob(u) /\ x.i = u.i
        /\ HandJob(x) => HandJob(u)
    BY <1>5 DEF Clean, Running, PluginJob, HandJob, NoJob
  <1>8. Clean(u) => x.i = u.i \/ (~u.i.reboot /\ ~x.i.reboot)
    BY <1>5 DEF Clean, Flows, Sound, BatchSound, JobSound, NoJob
  <1>9. Due(x)
    BY <1>5, <1>7, <1>8 DEF Owes, Due
  <1> QED
    BY <1>6, <1>9 DEF Owes

LEMMA TransitionCalm ==
  ASSUME NEW u, Shape(u), NEW x \in Transition(u)
  PROVE  Calm(u, x)
  <1>1. x.open = u.open /\ x.ui.tab = u.ui.tab /\ x.ui.psp = u.ui.psp
    BY DEF Transition, Shape, Fields, Mode
  <1> QED
    BY <1>1, TransitionSame, SameCalm

LEMMA ProtectionTickCalm ==
  ASSUME NEW u, Shape(u), NEW x \in ProtectionTick(u)
  PROVE  Calm(u, x)
  <1>1. x.open \subseteq u.open \cup {"protection"} /\ x.ui = u.ui
    BY DEF ProtectionTick, Opens, Shape, Fields
  <1> QED
    BY <1>1, ProtectionTickSame, SameCalm DEF Prompts

LEMMA FilterScanCalm ==
  ASSUME NEW u, Shape(u), NEW x \in FilterScan(u)
  PROVE  Calm(u, x)
  <1>1. x = u \/ \E v \in Seq(Apps) : x = [u EXCEPT !.view = v]
    BY DEF FilterScan, Views
  <1>2. x.open = u.open /\ x.ui = u.ui
    BY <1>1 DEF Shape, Fields
  <1> QED
    BY <1>2, FilterScanSame, SameCalm

LEMMA FrameEndOwes ==
  ASSUME NEW u, Flows(u), Owes(u), NEW x \in FrameEnd(u)
  PROVE  Owes(x)
  <1> DEFINE kept == {u} \cup IF AutoKeepDue(u) THEN AutoKeep(u) ELSE {}
  <1>1. \A y \in kept : Flows(y) /\ Owes(y)
    BY AutoKeepFlows, AutoKeepOwes
  <1>2. \/ x \in kept
        \/ x \in Then(Then(Then(Then(kept, Transition), PollUpdate), ProtectionTick), FilterScan)
    BY DEF FrameEnd
  <1> HIDE DEF kept
  <1>3. CASE x \in Then(Then(Then(Then(kept, Transition), PollUpdate), ProtectionTick), FilterScan)
    <2>1. PICK u3 : u3 \in Then(Then(Then(kept, Transition), PollUpdate), ProtectionTick)
                    /\ x \in FilterScan(u3)
      BY <1>3 DEF Then
    <2>2. PICK u2 : u2 \in Then(Then(kept, Transition), PollUpdate) /\ u3 \in ProtectionTick(u2)
      BY <2>1 DEF Then
    <2>3. PICK u1 : u1 \in Then(kept, Transition) /\ u2 \in PollUpdate(u1)
      BY <2>2 DEF Then
    <2>4. PICK u0 \in kept : u1 \in Transition(u0)
      BY <2>3 DEF Then
    <2>5. Flows(u1) /\ Owes(u1)
      BY <1>1, <2>4, TransitionSame, SameFlows, TransitionCalm, CalmOwes DEF Flows, Sound
    <2>6. Flows(u2) /\ Owes(u2)
      BY <2>3, <2>5, PollUpdateFlows, PollUpdateOwes
    <2>7. Flows(u3) /\ Owes(u3)
      BY <2>2, <2>6, ProtectionTickSame, SameFlows, ProtectionTickCalm, CalmOwes DEF Flows, Sound
    <2> QED
      BY <2>1, <2>7, FilterScanCalm, CalmOwes DEF Flows, Sound
  <1> QED
    BY <1>1, <1>2, <1>3

LEMMA RebuiltOpen ==
  ASSUME NEW u, Shape(u), NEW x \in Rebuilt(u)
  PROVE  x.open = u.open
  BY DEF Rebuilt, Shape, Fields

LEMMA CatalogComesCalm ==
  ASSUME NEW u, Shape(u), NEW x \in CatalogComes(u)
  PROVE  Calm(u, x)
  <1>1. CASE x = u
    BY <1>1, CatalogComesSame, SameCalm
  <1>2. ASSUME NEW y \in {u} \cup Taken(u),
               x = [y EXCEPT !.ui.loading = FALSE, !.stage = IF @ = "catalog" THEN "theme" ELSE @]
        PROVE  x.open \subseteq u.open /\ x.ui.tab = u.ui.tab /\ x.ui.psp = u.ui.psp
    <2>1. /\ y.open \subseteq u.open /\ y.ui.tab = u.ui.tab /\ y.ui.psp = u.ui.psp
          /\ DOMAIN y = Fields /\ DOMAIN y.ui = DOMAIN u.ui
      <3>1. CASE y = u
        BY <3>1 DEF Shape
      <3>2. CASE y \in Taken(u)
        <4>1. PICK list \in Lists[u.ui.tab] :
                 y = [Closes(u, "filter") EXCEPT
                        !.view = list,
                        !.ui = [@ EXCEPT !.list = list, !.filter = "all", !.sel = 1]]
          BY <3>2 DEF Taken
        <4> DEFINE c == Closes(u, "filter")
                   page == [c.ui EXCEPT !.list = list, !.filter = "all", !.sel = 1]
        <4>2. DOMAIN c = Fields /\ c.ui = u.ui /\ c.open = u.open \ {"filter"}
          BY DEF Shape, Fields, Closes
        <4> HIDE DEF c
        <4>3. y = [c EXCEPT !.view = list, !.ui = page]
          BY <4>1 DEF c
        <4>4. DOMAIN page = DOMAIN u.ui /\ page.tab = u.ui.tab /\ page.psp = u.ui.psp
          BY <4>2 DEF Shape
        <4> HIDE DEF page
        <4> QED
          BY <4>2, <4>3, <4>4 DEF Fields
      <3> QED
        BY <1>2, <3>1, <3>2
    <2> DEFINE place == IF y.stage = "catalog" THEN "theme" ELSE y.stage
    <2>2. x = [y EXCEPT !.ui.loading = FALSE, !.stage = place]
      BY <1>2
    <2> HIDE DEF place
    <2> QED
      BY <2>1, <2>2 DEF Shape, Fields
  <1>3. ASSUME x \in Refreshed(u)
        PROVE  x.open = u.open /\ x.ui.tab = u.ui.tab /\ x.ui.psp = u.ui.psp
    <2> DEFINE with(list) == Rebuilt([u EXCEPT !.ui.list = list])
    <2>1. PICK list \in Lists[u.ui.tab], y \in UNION {with(l) : l \in Lists[u.ui.tab]} :
             \/ \E n : x = [y EXCEPT !.ui.sel = n]
             \/ \E n : x = [y EXCEPT !.ui.sel = n, !.ui.mode = "FULL_CATALOG"]
      BY <1>3 DEF Refreshed
    <2>2. PICK l \in Lists[u.ui.tab] : y \in with(l)
      <3> HIDE DEF with
      <3> QED
        BY <2>1
    <2> DEFINE v == [u EXCEPT !.ui.list = l]
    <2>3. y \in Rebuilt(v)
      BY <2>2
    <2>l. l \in Seq(Apps)
      BY CatalogScreenAssumption DEF Shape
    <2>v. /\ Shape(v) /\ v.open = u.open /\ v.ui.tab = u.ui.tab /\ v.ui.psp = u.ui.psp
      BY <2>l DEF Shape, Fields
    <2> HIDE DEF v
    <2>o. y.open = v.open
      BY <2>3, <2>v, RebuiltOpen
    <2>4. y.ui = v.ui /\ Shape(y)
      BY <2>3, <2>v, RebuiltSame DEF Same
    <2>5. ASSUME NEW n, x = [y EXCEPT !.ui.sel = n]
          PROVE  x.open = y.open /\ x.ui.tab = y.ui.tab /\ x.ui.psp = y.ui.psp
      BY <2>4, <2>5 DEF Shape, Fields
    <2>6. ASSUME NEW n, x = [y EXCEPT !.ui.sel = n, !.ui.mode = "FULL_CATALOG"]
          PROVE  x.open = y.open /\ x.ui.tab = y.ui.tab /\ x.ui.psp = y.ui.psp
      BY <2>4, <2>6 DEF Shape, Fields
    <2> QED
      BY <2>1, <2>v, <2>o, <2>4, <2>5, <2>6
  <1> QED
    BY <1>1, <1>2, <1>3, CatalogComesSame, SameCalm DEF CatalogComes

LEMMA StepsCalm ==
  ASSUME NEW u, Shape(u),
         NEW x \in ThemeStep(u) \cup NewsStep(u) \cup NoticeStep(u) \cup FilterStep(u)
  PROVE  Calm(u, x)
  <1>1. \E s, d : x \in {u, At(u, s), At(Opens(u, d), s), Opens(u, d), Closes(u, d)}
                  /\ d \in {"theme", "news", "archive", "filter"}
    BY DEF ThemeStep, NewsStep, NoticeStep, FilterStep
  <1>2. x.open \cap Prompts \subseteq u.open /\ x.ui = u.ui
    <2>1. PICK s, d : /\ x \in {u, At(u, s), At(Opens(u, d), s), Opens(u, d), Closes(u, d)}
                      /\ d \in {"theme", "news", "archive", "filter"}
      BY <1>1
    <2>2. d \notin Prompts
      BY <2>1 DEF Prompts
    <2>3. x = At(u, s) => x.open = u.open /\ x.ui = u.ui
      BY DEF At, Shape, Fields
    <2>4. x = Opens(u, d) => x.open = u.open \cup {d} /\ x.ui = u.ui
      BY DEF Opens, Shape, Fields
    <2>5. x = At(Opens(u, d), s) => x.open = u.open \cup {d} /\ x.ui = u.ui
      BY DEF At, Opens, Shape, Fields
    <2>6. x = Closes(u, d) => x.open = u.open \ {d} /\ x.ui = u.ui
      BY DEF Closes, Shape, Fields
    <2> QED
      BY <2>1, <2>2, <2>3, <2>4, <2>5, <2>6
  <1> QED
    BY <1>2, StepsSame, SameCalm

LEMMA EssentialStepOwes ==
  ASSUME NEW u, Shape(u), Owes(u), Attended(u), NEW x \in EssentialStep(u)
  PROVE  Owes(x) /\ Attended(x)
  <1>1. \/ x = u
        \/ x = At(u, "over")
        \/ \E n \in 1 .. Essential : x = [At(Opens(u, "essential"), "over") EXCEPT !.e.left = n]
    BY DEF EssentialStep
  <1>2. /\ x.b = u.b /\ x.i = u.i /\ x.s = u.s /\ x.t = u.t /\ x.reboot = u.reboot
        /\ x.e.running = u.e.running /\ x.e.begun = u.e.begun
        /\ x.ui = u.ui /\ x.open \subseteq u.open \cup {"essential"}
    <2>1. CASE x = u
      BY <2>1
    <2>2. CASE x = At(u, "over")
      BY <2>2 DEF Shape, Fields, At
    <2>3. ASSUME NEW n, x = [At(Opens(u, "essential"), "over") EXCEPT !.e.left = n]
          PROVE  /\ x.b = u.b /\ x.i = u.i /\ x.s = u.s /\ x.t = u.t /\ x.reboot = u.reboot
                 /\ x.e.running = u.e.running /\ x.e.begun = u.e.begun
                 /\ x.ui = u.ui /\ x.open = u.open \cup {"essential"}
      BY <2>3 DEF Shape, Fields, At, Opens, NoQueue
    <2> QED
      BY <1>1, <2>1, <2>2, <2>3
  <1>3. (Clean(x) <=> Clean(u)) /\ (HandJob(x) <=> HandJob(u)) /\ (PluginJob(x) <=> PluginJob(u))
        /\ (Running(x) <=> Running(u))
    BY <1>2 DEF Clean, HandJob, PluginJob, Running
  <1>4. Due(x)
    BY <1>2, <1>3 DEF Owes, Due
  <1>5. Windows(x)
    BY <1>2 DEF Owes, Windows, SetUp
  <1> QED
    BY <1>2, <1>3, <1>4, <1>5 DEF Owes, Attended

LEMMA MainLoopOwes ==
  ASSUME NEW u, Flows(u), Owes(u), NEW x \in MainLoop(u)
  PROVE  Owes(x) /\ Attended(x)
  <1>1. PICK u6 : u6 \in Then(Then(Then(Then(Then(CatalogComes(u), Polled), ThemeStep), NewsStep),
                          EssentialStep), NoticeStep) /\ x \in FilterStep(u6)
    BY DEF MainLoop, Then
  <1>2. PICK u5 : u5 \in Then(Then(Then(Then(CatalogComes(u), Polled), ThemeStep), NewsStep),
                          EssentialStep) /\ u6 \in NoticeStep(u5)
    BY <1>1 DEF Then
  <1>3. PICK u4 : u4 \in Then(Then(Then(CatalogComes(u), Polled), ThemeStep), NewsStep)
                  /\ u5 \in EssentialStep(u4)
    BY <1>2 DEF Then
  <1>4. PICK u3 : u3 \in Then(Then(CatalogComes(u), Polled), ThemeStep) /\ u4 \in NewsStep(u3)
    BY <1>3 DEF Then
  <1>5. PICK u2 : u2 \in Then(CatalogComes(u), Polled) /\ u3 \in ThemeStep(u2)
    BY <1>4 DEF Then
  <1>6. PICK u1 : u1 \in CatalogComes(u) /\ u2 \in Polled(u1)
    BY <1>5 DEF Then
  <1>7. Flows(u1) /\ Owes(u1)
    BY <1>6, CatalogComesSame, SameFlows, CatalogComesCalm, CalmOwes DEF Flows, Sound
  <1>8. Rests(u2) /\ Owes(u2) /\ Attended(u2)
    BY <1>6, <1>7, PolledSound, PolledOwes DEF Rests
  <1>9. Rests(u3) /\ Owes(u3) /\ Attended(u3)
    BY <1>5, <1>8, StepsSame, SameRests, StepsCalm, CalmOwes DEF Rests, Sound
  <1>10. Rests(u4) /\ Owes(u4) /\ Attended(u4)
    BY <1>4, <1>9, StepsSame, SameRests, StepsCalm, CalmOwes DEF Rests, Sound
  <1>11. Rests(u5) /\ Owes(u5) /\ Attended(u5)
    BY <1>3, <1>10, EssentialStepRests, EssentialStepOwes DEF Rests, Sound
  <1>12. Rests(u6) /\ Owes(u6) /\ Attended(u6)
    BY <1>2, <1>11, StepsSame, SameRests, StepsCalm, CalmOwes DEF Rests, Sound
  <1> QED
    BY <1>1, <1>12, StepsCalm, CalmOwes DEF Rests, Sound

-----------------------------------------------------------------------------
(* The restart a plugin needs, and who answers *)

\* Below what stands over a layer nothing of it is there.
LEMMA OrderClear ==
  ASSUME NEW u, Shape(u), NEW layer,
         Answers(ButtonOrder, layer, u) \/ Answers(TouchOrder, layer, u)
  PROVE  /\ layer \in Present(u)
         /\ layer = "page" => Clear(u)
         /\ layer = "psp" => "savedZip" \notin u.open
  <1> DEFINE flag == [reboot |-> u.reboot, wizard |-> Wizard(u), progress |-> u.s.active,
                      loading |-> u.ui.loading, settings |-> Mode(u, {"SETTINGS"}),
                      transition |-> Moving(u), page |-> TRUE]
  <1>1. Present(u) = u.open \cup {l \in DOMAIN flag : flag[l]}
    BY DEF Present
  <1>2. /\ DOMAIN flag = {"reboot", "wizard", "progress", "loading", "settings", "transition",
                          "page"}
        /\ flag["progress"] <=> u.s.active
        /\ flag["wizard"] <=> Wizard(u)
    OBVIOUS
  <1> HIDE DEF flag
  <1>3. /\ u.s.active => "progress" \in Present(u)
        /\ Wizard(u) => "wizard" \in Present(u)
        /\ \A l \in u.open : l \in Present(u)
    BY <1>1, <1>2
  <1>4. ASSUME "progress" \notin Present(u), "wizard" \notin Present(u),
               "savedZip" \notin Present(u), "psp" \notin Present(u), "plugin" \notin Present(u)
        PROVE  Clear(u)
    BY <1>3, <1>4 DEF Clear, Prompts
  <1>5. ASSUME Answers(ButtonOrder, layer, u)
        PROVE  /\ layer \in Present(u)
               /\ layer = "page" => Clear(u)
               /\ layer = "psp" => "savedZip" \notin u.open
    <2>1. PICK n \in DOMAIN ButtonOrder :
              /\ ButtonOrder[n] = layer /\ layer \in Present(u)
              /\ \A m \in 1 .. n - 1 : ButtonOrder[m] \notin Present(u)
      BY <1>5 DEF Answers
    <2>2. /\ n \in 1 .. 22
          /\ ButtonOrder[4] = "savedZip" /\ ButtonOrder[7] = "plugin" /\ ButtonOrder[9] = "psp"
          /\ ButtonOrder[16] = "wizard" /\ ButtonOrder[20] = "progress"
      BY DEF ButtonOrder
    <2>3. layer = "page" => n = 22
      BY <2>1, <2>2 DEF ButtonOrder
    <2>4. layer = "psp" => n = 9
      BY <2>1, <2>2 DEF ButtonOrder
    <2>5. layer = "page" => Clear(u)
      <3> SUFFICES ASSUME layer = "page" PROVE Clear(u)
        OBVIOUS
      <3>1. \A m \in 1 .. 21 : ButtonOrder[m] \notin Present(u)
        BY <2>1, <2>3
      <3> QED
        BY <1>4, <2>2, <3>1
    <2>6. layer = "psp" => "savedZip" \notin u.open
      BY <1>3, <2>1, <2>2, <2>4
    <2> QED
      BY <2>1, <2>5, <2>6
  <1>6. ASSUME Answers(TouchOrder, layer, u)
        PROVE  /\ layer \in Present(u)
               /\ layer = "page" => Clear(u)
               /\ layer = "psp" => "savedZip" \notin u.open
    <2>1. PICK n \in DOMAIN TouchOrder :
              /\ TouchOrder[n] = layer /\ layer \in Present(u)
              /\ \A m \in 1 .. n - 1 : TouchOrder[m] \notin Present(u)
      BY <1>6 DEF Answers
    <2>2. /\ n \in 1 .. 22
          /\ TouchOrder[8] = "savedZip" /\ TouchOrder[12] = "plugin" /\ TouchOrder[14] = "psp"
          /\ TouchOrder[17] = "wizard" /\ TouchOrder[18] = "progress"
      BY DEF TouchOrder
    <2>3. layer = "page" => n = 22
      BY <2>1, <2>2 DEF TouchOrder
    <2>4. layer = "psp" => n = 14
      BY <2>1, <2>2 DEF TouchOrder
    <2>5. layer = "page" => Clear(u)
      <3> SUFFICES ASSUME layer = "page" PROVE Clear(u)
        OBVIOUS
      <3>1. \A m \in 1 .. 21 : TouchOrder[m] \notin Present(u)
        BY <2>1, <2>3
      <3> QED
        BY <1>4, <2>2, <3>1
    <2>6. layer = "psp" => "savedZip" \notin u.open
      BY <1>3, <2>1, <2>2, <2>4
    <2> QED
      BY <2>1, <2>5, <2>6
  <1> QED
    BY <1>5, <1>6

\* What a dialog's own flag says.
LEMMA DialogOpen ==
  ASSUME NEW u, NEW d \in {"savedZip", "psp", "plugin", "essential"}, d \in Present(u)
  PROVE  d \in u.open
  <1> DEFINE flag == [reboot |-> u.reboot, wizard |-> Wizard(u), progress |-> u.s.active,
                      loading |-> u.ui.loading, settings |-> Mode(u, {"SETTINGS"}),
                      transition |-> Moving(u), page |-> TRUE]
  <1>1. Present(u) = u.open \cup {l \in DOMAIN flag : flag[l]}
    BY DEF Present
  <1>2. DOMAIN flag = {"reboot", "wizard", "progress", "loading", "settings", "transition",
                       "page"}
    OBVIOUS
  <1> HIDE DEF flag
  <1> QED
    BY <1>1, <1>2

LEMMA AllHeeded ==
  ASSUME NEW u, Heeds(u), NEW layer, layer \in Present(u), layer = "page" => Clear(u),
         layer = "psp" => "savedZip" \notin u.open, NEW x, ByPress(layer, u, x)
  PROVE  Heeded(u, x)
  <1> Shape(u)
    BY DEF Heeds, Sound
  <1>1. CASE x \in DataMenu(u) \cup ArchiveNotice(u) \cup WebQr(u) \cup Protection(u)
                   \cup ThemePicker(u) \cup DataRequest(u) \cup ReportForm(u) \cup News(u)
    BY <1>1, NoticesCalm, CalmHeeded
  <1>2. CASE x \in RebootDialog(u)
    BY <1>2, PageCalm, CalmHeeded
  <1>3. CASE x \in FilterMenu(u)
    BY <1>3, FilterMenuCalm, CalmHeeded
  <1>4. CASE layer = "page" /\ x \in PressPage(u) \cup TouchPage(u)
    BY <1>4, PageHeeded
  <1>5. CASE layer = "wizard" /\ x \in PressWizard(u) \cup TouchWizard(u)
    BY <1>5, PresentFacts, WizardHeeded
  <1>6. CASE x \in Progress(u)
    BY <1>6, ProgressHeeded
  <1>7. CASE layer = "essential" /\ x \in EssentialPrompt(u)
    BY <1>7, DialogOpen, EssentialPromptHeeded
  <1>8. CASE layer = "savedZip" /\ x \in SavedZip(u)
    BY <1>8, DialogOpen, SavedZipHeeded
  <1>9. CASE layer = "plugin" /\ x \in PluginChoice(u)
    BY <1>9, DialogOpen, PluginChoiceHeeded
  <1>10. CASE layer = "psp" /\ x \in PspSetup(u)
    BY <1>10, DialogOpen, PspSetupHeeded
  <1>11. CASE x \in Settings(u)
    BY <1>11, SettingsHeeded
  <1>12. CASE x \in OpenStorage(u)
    BY <1>12, OpenStorageCalm, CalmHeeded
  <1>13. CASE x \in PressStorage(u) \cup TouchStorage(u)
    <2>1. x \in StorageRows(u) \cup StorageCloses(u) \cup {[u EXCEPT !.ui.sure = FALSE]}
      BY <1>13 DEF PressStorage, TouchStorage
    <2> QED
      BY <2>1, StorageCalm, CalmHeeded
  <1>14. CASE x \in Keys(u)
    BY <1>14, KeysHeeded
  <1> QED
    BY <1>1, <1>2, <1>3, <1>4, <1>5, <1>6, <1>7, <1>8, <1>9, <1>10, <1>11, <1>12, <1>13, <1>14
    DEF ByPress, ByTouch

-----------------------------------------------------------------------------
(* The restart a plugin needs, from worlds to the state *)

RestartInv ==
    /\ Owes(Now)
    /\ pc = "input" => Attended(Now)
    /\ pc = "touch" => Handy(Now)

LEMMA ShowOwes ==
  ASSUME NEW u, Shape(u), Owes(u), NEW next \in {"input", "touch"}, Show(u, next),
         next = "input" => Attended(u), next = "touch" => Handy(u)
  PROVE  RestartInv'
  <1> DEFINE x == Now'
             t == [u.t EXCEPT !.mixed = @ \/ (u.b.phase = "Running" /\ u.e.running)]
             ask == IF u.open \cap {"savedZip", "psp", "plugin"} = {} THEN NoAsk ELSE u.ui.ask
             back == IF u.ui.mode = "SETTINGS" THEN u.ui.back ELSE "FULL_CATALOG"
             page == [u.ui EXCEPT !.ask = ask, !.back = back]
  <1>1. /\ batch' = u.b /\ essential' = u.e /\ installer' = u.i /\ shown' = u.s
        /\ reboot' = u.reboot /\ open' = u.open /\ ui' = page /\ pc' \in {next, "off"}
        /\ truth' = t
    BY DEF Show, Become
  <1>2. (u.t.mixed => t.mixed) /\ SameDebt(u.t, t)
    BY DEF Shape, NoTruth, SameDebt
  <1>3. page.tab = u.ui.tab /\ page.psp = u.ui.psp
    <2> HIDE DEF ask, back
    <2> QED
      BY DEF Shape
  <1> HIDE DEF t, page
  <1>4. /\ x.b = u.b /\ x.e = u.e /\ x.i = u.i /\ x.s = u.s /\ x.reboot = u.reboot
        /\ x.t = t /\ x.open = u.open /\ x.ui = page
    BY <1>1 DEF Now
  <1> HIDE DEF x
  <1>5. /\ Clean(x) => Clean(u)
        /\ (HandJob(x) <=> HandJob(u)) /\ (PluginJob(x) <=> PluginJob(u))
        /\ (Running(x) <=> Running(u)) /\ (SetUp(x) <=> SetUp(u)) /\ (Wizard(x) <=> Wizard(u))
    BY <1>2, <1>3, <1>4 DEF Clean, HandJob, PluginJob, Running, SetUp, Wizard, SameDebt
  <1>6. Due(x)
    BY <1>2, <1>4, <1>5 DEF Owes, Due, SameDebt
  <1>7. Windows(x)
    BY <1>4, <1>5 DEF Owes, Windows
  <1>8. Attended(u) => Attended(x)
    BY <1>4, <1>5 DEF Attended
  <1>9. Handy(u) => Handy(x)
    BY <1>4, <1>5 DEF Handy
  <1> QED
    BY <1>1, <1>6, <1>7, <1>8, <1>9 DEF RestartInv, Owes, x

LEMMA RestartInitially == Init => RestartInv
  <1> SUFFICES ASSUME Init PROVE RestartInv
    OBVIOUS
  <1>1. /\ Now.b = NoBatch /\ Now.e = NoQueue /\ Now.i = NoJob /\ Now.t = NoTruth
        /\ Now.open = {} /\ pc = "input"
    BY DEF Init, Now
  <1>2. /\ NoBatch.phase = "Hidden" /\ ~NoBatch.plugin /\ ~NoJob.reboot /\ NoJob.kind = "none"
        /\ ~NoTruth.owed
    BY DEF NoBatch, NoJob, NoTruth
  <1>3. ~PluginJob(Now) /\ ~HandJob(Now)
    BY <1>1, <1>2 DEF PluginJob, HandJob
  <1> QED
    BY <1>1, <1>2, <1>3 DEF RestartInv, Owes, Due, Windows, Attended, Running

\* A plugin that is installed now leaves its result to tell of the restart.
LEMMA ServesOwes ==
  ASSUME ScreenInv, RestartInv, Serves
  PROVE  RestartInv'
  <1> DEFINE u == Now
             x == Now'
  <1>1. PICK end \in {"Completed", "Failed"}, zip \in BOOLEAN :
          /\ installer.st = "Working"
          /\ LET needs == end = "Completed" /\ installer.kind = "plugin"
                 i == [installer EXCEPT !.st = end, !.zip = zip, !.reboot = needs]
             IN Become(Noted([World EXCEPT !.i = i, !.t.owed = @ \/ needs,
                                           !.faults = IF end = "Failed" THEN @ + 1 ELSE @],
                             installer.of, OutcomeOf(i)))
    BY DEF Serves, JobEnds
  <1> DEFINE needs == end = "Completed" /\ installer.kind = "plugin"
             i == [installer EXCEPT !.st = end, !.zip = zip, !.reboot = needs]
             owed == World.t.owed \/ needs
             n == IF end = "Failed" THEN World.faults + 1 ELSE World.faults
             outcome == OutcomeOf(i)
             of == installer.of
             z == [World EXCEPT !.i = i, !.t.owed = owed, !.faults = n]
             y == Noted(z, of, outcome)
  <1>2. Become(y)
    BY <1>1
  <1>3. /\ Sound(u) /\ Owes(u) /\ Attended(u) /\ pc = "input" /\ pc' = "input"
        /\ open' = open /\ ui' = ui
    BY DEF ScreenInv, RestartInv, Serves
  <1>4. /\ u.b = batch /\ u.e = essential /\ u.i = installer /\ u.s = shown /\ u.t = truth
        /\ u.open = open /\ u.ui = ui /\ u.reboot = reboot
    BY DEF Now
  <1>6. needs <=> (end = "Completed" /\ installer.kind = "plugin")
    OBVIOUS
  <1>5. /\ i.st = end /\ (i.reboot <=> needs) /\ i.kind = installer.kind
        /\ i.seen = installer.seen
    <2>1. DOMAIN installer = DOMAIN NoJob
      BY <1>3, <1>4 DEF Sound, Shape
    <2> HIDE DEF needs
    <2> QED
      BY <2>1 DEF NoJob
  <1>d. owed <=> (truth.owed \/ needs)
    BY DEF World
  <1> HIDE DEF i, owed, n, outcome, of, needs
  <1>7. /\ y.b = batch /\ y.e = essential /\ y.i = i /\ y.s = shown /\ y.reboot = reboot
        /\ DOMAIN y.t = DOMAIN NoTruth /\ y.t.mixed = truth.mixed /\ y.t.owed = owed
        /\ y.t.dropped = truth.dropped
    <2>1. DOMAIN truth = DOMAIN NoTruth
      BY <1>3, <1>4 DEF Sound, Shape
    <2>2. /\ z.b = batch /\ z.e = essential /\ z.i = i /\ z.s = shown /\ z.reboot = reboot
          /\ DOMAIN z.t = DOMAIN NoTruth /\ z.t.mixed = truth.mixed /\ z.t.owed = owed
          /\ z.t.dropped = truth.dropped
          /\ DOMAIN z = {"b", "e", "i", "s", "reboot", "view", "faults", "t"}
      BY <2>1 DEF World, NoTruth
    <2> HIDE DEF z
    <2> DEFINE h == [z.t.ended EXCEPT ![of] = outcome]
    <2>4. /\ of = 0 => y = z
          /\ of # 0 => y = [z EXCEPT !.t.ended = h]
      BY DEF Noted
    <2> HIDE DEF y, h
    <2> QED
      BY <2>2, <2>4 DEF NoTruth
  <1> DEFINE t == [y.t EXCEPT !.mixed = @ \/ (y.b.phase = "Running" /\ y.e.running)]
  <1>8. (truth.mixed => t.mixed) /\ t.owed = owed /\ t.dropped = truth.dropped
    <2> HIDE DEF y
    <2> DEFINE mixed == y.t.mixed \/ (y.b.phase = "Running" /\ y.e.running)
    <2>1. t = [y.t EXCEPT !.mixed = mixed] /\ (y.t.mixed => mixed)
      OBVIOUS
    <2> HIDE DEF t, mixed
    <2> QED
      BY <1>7, <2>1 DEF NoTruth
  <1>9. /\ batch' = batch /\ essential' = essential /\ installer' = i /\ shown' = shown
        /\ reboot' = reboot /\ truth' = t
    BY <1>2, <1>7 DEF Become
  <1> HIDE DEF t, y
  <1>10. /\ x.b = u.b /\ x.e = u.e /\ x.i = i /\ x.s = u.s /\ x.reboot = u.reboot
         /\ x.t = t /\ x.open = u.open /\ x.ui = u.ui
    BY <1>3, <1>4, <1>9 DEF Now
  <1>11. /\ end \in {"Completed", "Failed"} /\ u.i.st = "Working"
         /\ i.st = end /\ i.kind = u.i.kind /\ (i.seen <=> u.i.seen)
         /\ i.reboot <=> (end = "Completed" /\ u.i.kind = "plugin")
         /\ u.t.mixed => t.mixed
         /\ t.dropped = u.t.dropped
         /\ t.owed <=> (u.t.owed \/ i.reboot)
    BY <1>1, <1>4, <1>5, <1>6, <1>8, <1>d
  <1> HIDE DEF u, x
  <1>12. ~u.i.reboot
    BY <1>3, <1>11 DEF Sound, JobSound
  <1>13. /\ Clean(x) => Clean(u)
         /\ PluginJob(x) => PluginJob(u) /\ i.reboot
         /\ HandJob(x) => HandJob(u)
         /\ Running(x) <=> Running(u)
    BY <1>10, <1>11 DEF Clean, PluginJob, HandJob, Running
  <1>14. Due(x)
    BY <1>3, <1>10, <1>11, <1>12, <1>13 DEF Owes, Due
  <1>15. Windows(x)
    BY <1>3, <1>10 DEF Owes, Windows, SetUp
  <1>16. Attended(x)
    BY <1>3, <1>10, <1>13 DEF Attended
  <1> QED
    BY <1>3, <1>14, <1>15, <1>16 DEF RestartInv, Owes, x

\* A frame finds a thread of the screen ended: no prompt opens with that.
LEMMA WorkEndsOwes ==
  ASSUME ScreenInv, RestartInv, WorkEnds
  PROVE  RestartInv'
  <1> DEFINE u == Now
  <1>1. Shape(u) /\ Owes(u) /\ Attended(u)
    BY DEF ScreenInv, Sound, RestartInv, WorkEnds
  <1>2. PICK z \in work \ {"update"} :
          LET v == [Now EXCEPT !.work = @ \ {z},
                               !.ui.sure = @ /\ z \notin {"scan", "remove"}]
          IN \E x \in {v} \cup CASE z = "feedback" -> {Closes(v, "report")}
                                 [] z = "data" -> {Closes(v, "data")}
                                 [] OTHER -> {} :
                Show(x, "input")
    BY DEF WorkEnds
  <1> DEFINE sure == u.ui.sure /\ z \notin {"scan", "remove"}
             v == [u EXCEPT !.work = @ \ {z}, !.ui.sure = sure]
  <1>3. \E x \in {v, Closes(v, "report"), Closes(v, "data")} : Show(x, "input")
    BY <1>2
  <1> HIDE DEF u, sure
  <1>4. Same(u, v) /\ v.open = u.open /\ v.ui.tab = u.ui.tab /\ v.ui.psp = u.ui.psp
    <2>0. DOMAIN v = Fields /\ DOMAIN v.ui = DOMAIN u.ui /\ v.ui.filter = u.ui.filter
          /\ v.view = u.view /\ v.ui.list = u.ui.list /\ v.ui.tab = u.ui.tab
          /\ v.ui.psp = u.ui.psp
          /\ v.open = u.open /\ v.work = u.work \ {z}
          /\ v.b = u.b /\ v.e = u.e /\ v.i = u.i /\ v.s = u.s /\ v.t = u.t /\ v.reboot = u.reboot
      BY <1>1 DEF Shape, Fields
    <2> HIDE DEF v
    <2> QED
      BY <1>1, <2>0, LooksSame DEF Shape, AtStorage
  <1> HIDE DEF v
  <1>5. Shape(v) /\ Calm(u, v)
    BY <1>1, <1>4, SameCalm DEF Same
  <1>6. ASSUME NEW d \in {"report", "data"}
        PROVE  Shape(Closes(v, d)) /\ Calm(u, Closes(v, d))
    <2>1. Shape(Closes(v, d))
      BY <1>5, ClosesQuiet DEF Quiet, Same
    <2>2. Calm(v, Closes(v, d))
      BY <1>5, ClosesCalm
    <2> QED
      BY <1>5, <2>1, <2>2, CalmTrans
  <1>7. PICK x \in {v, Closes(v, "report"), Closes(v, "data")} : Show(x, "input")
    BY <1>3
  <1>8. Shape(x) /\ Calm(u, x)
    BY <1>5, <1>6, <1>7
  <1>9. Owes(x) /\ Attended(x)
    BY <1>1, <1>8, CalmOwes
  <1> QED
    BY <1>7, <1>8, <1>9, ShowOwes

\* What was typed rebuilds the list and nothing else.
LEMMA KeyboardEndsOwes ==
  ASSUME ScreenInv, RestartInv, KeyboardEnds
  PROVE  RestartInv'
  <1> DEFINE u == Now
             c == Closes(u, "keyboard")
  <1>1. Shape(u) /\ Owes(u) /\ Attended(u)
    BY DEF ScreenInv, Sound, RestartInv, KeyboardEnds
  <1>2. PICK x \in {c} \cup Filters(c, "some") \cup Filters(c, "all") : Show(x, "input")
    BY DEF KeyboardEnds
  <1>3. Shape(c) /\ Calm(u, c)
    BY <1>1, ClosesCalm, ClosesQuiet DEF Quiet, Same
  <1> HIDE DEF u, c
  <1>4. Shape(x) /\ Calm(u, x)
    BY <1>2, <1>3, FiltersCalm, FiltersQuiet, CalmTrans DEF Quiet, Same
  <1>5. Owes(x) /\ Attended(x)
    BY <1>1, <1>4, CalmOwes
  <1> QED
    BY <1>2, <1>4, <1>5, ShowOwes

LEMMA PressedOwes ==
  ASSUME ScreenInv, RestartInv, NEW layer, NEW worlds, Pressed(layer, worlds),
         \A x \in worlds : ByPress(layer, Now, x)
  PROVE  RestartInv'
  <1> DEFINE u == Now
  <1>1. PICK x \in worlds : Show(x, "touch")
    BY DEF Pressed
  <1>2. /\ Rests(u) /\ Answers(ButtonOrder, layer, u) /\ ByPress(layer, u, x)
        /\ Owes(u) /\ Attended(u)
    BY DEF ScreenInv, RestartInv, Rests, Pressed
  <1> HIDE DEF u
  <1>3. Sound(x)
    BY <1>2, PressStep
  <1>4. Heeds(u)
    BY <1>2, HandyWhenAttended DEF Heeds, Owes, Rests
  <1>5. /\ layer \in Present(u)
        /\ layer = "page" => Clear(u)
        /\ layer = "psp" => "savedZip" \notin u.open
    BY <1>2, OrderClear DEF Rests, Sound
  <1>6. Heeded(u, x)
    BY <1>2, <1>4, <1>5, AllHeeded
  <1>7. Shape(x) /\ Owes(x) /\ Handy(x)
    BY <1>2, <1>3, <1>6 DEF Heeded, Owes, Sound
  <1> QED
    BY <1>1, <1>7, ShowOwes

LEMMA LoopOwes ==
  ASSUME NEW worlds, \A x \in worlds : Flows(x) /\ Owes(x),
         NEW u \in Then(Then(worlds, FrameEnd), MainLoop), Show(u, "input")
  PROVE  RestartInv'
  <1>1. PICK x \in worlds : u \in Then(FrameEnd(x), MainLoop)
    BY DEF Then
  <1>2. PICK y \in FrameEnd(x) : u \in MainLoop(y)
    BY <1>1 DEF Then
  <1>3. Flows(y) /\ Owes(y)
    BY <1>1, <1>2, FrameEndFlows, FrameEndOwes
  <1>4. Rests(u) /\ Owes(u) /\ Attended(u)
    BY <1>2, <1>3, MainLoopRests, MainLoopOwes
  <1> QED
    BY <1>4, ShowOwes DEF Rests, Sound

LEMMA TouchedOwes ==
  ASSUME ScreenInv, RestartInv, NEW layer, NEW worlds, Touched(layer, worlds),
         \A x \in worlds : ByTouch(layer, Now, x)
  PROVE  RestartInv'
  <1>1. PICK u \in Then(Then(worlds, FrameEnd), MainLoop) : Show(u, "input")
    BY DEF Touched
  <1>2. /\ Sound(Now) /\ Unseen(Now) /\ AtTouch(Now)
        /\ Answers(TouchOrder, layer, Now)
    BY BetweenIsTouch DEF Touched
  <1>3. Heeds(Now)
    BY <1>2, HandyWhenAttended DEF ScreenInv, RestartInv, Touched, Heeds, Owes
  <1>4. /\ layer \in Present(Now)
        /\ layer = "page" => Clear(Now)
        /\ layer = "psp" => "savedZip" \notin Now.open
    BY <1>2, OrderClear DEF Sound
  <1>5. ASSUME NEW x \in worlds
        PROVE  Flows(x) /\ Owes(x)
    <2>1. Flows(x)
      BY <1>2, TouchStep
    <2>2. Heeded(Now, x)
      BY <1>3, <1>4, AllHeeded DEF ByPress
    <2> QED
      BY <2>1, <2>2 DEF Heeded, Owes
  <1> QED
    BY <1>1, <1>5, LoopOwes

LEMMA NoTouchOwes ==
  ASSUME ScreenInv, RestartInv, NoTouch
  PROVE  RestartInv'
  <1>1. PICK u \in Then(FrameEnd(Now), MainLoop) : Show(u, "input")
    BY DEF NoTouch
  <1>2. Flows(Now) /\ Owes(Now)
    BY BetweenIsTouch, TouchIsPoll DEF NoTouch, Flows, RestartInv
  <1>3. PICK y \in FrameEnd(Now) : u \in MainLoop(y)
    BY <1>1 DEF Then
  <1>4. Flows(y) /\ Owes(y)
    BY <1>2, <1>3, FrameEndFlows, FrameEndOwes
  <1>5. Rests(u) /\ Owes(u) /\ Attended(u)
    BY <1>3, <1>4, MainLoopRests, MainLoopOwes
  <1> QED
    BY <1>1, <1>5, ShowOwes DEF Rests, Sound

LEMMA KeyboardStaysOwes ==
  ASSUME ScreenInv, RestartInv, KeyboardStays
  PROVE  RestartInv'
  <1>1. PICK u \in MainLoop(Now) : Show(u, "input")
    BY DEF KeyboardStays
  <1>2. Flows(Now) /\ Owes(Now)
    BY BetweenIsTouch, TouchIsPoll DEF KeyboardStays, Flows, RestartInv
  <1>3. Rests(u) /\ Owes(u) /\ Attended(u)
    BY <1>1, <1>2, MainLoopRests, MainLoopOwes
  <1> QED
    BY <1>1, <1>3, ShowOwes DEF Rests, Sound

LEMMA RestartNext ==
  ASSUME ScreenInv, RestartInv, [Next]_vars
  PROVE  RestartInv'
  <1> USE DEF ByPress, ByTouch
  <1>1. CASE PressData
    BY <1>1, PressedOwes DEF PressData
  <1>2. CASE PressStorageMenu
    BY <1>2, PressedOwes DEF PressStorageMenu
  <1>3. CASE PressSavedZip
    BY <1>3, PressedOwes DEF PressSavedZip
  <1>4. CASE PressArchive
    BY <1>4, PressedOwes DEF PressArchive
  <1>5. CASE PressReboot
    BY <1>5, PressedOwes DEF PressReboot
  <1>6. CASE PressPlugin
    BY <1>6, PressedOwes DEF PressPlugin
  <1>7. CASE PressEssential
    BY <1>7, PressedOwes DEF PressEssential
  <1>8. CASE PressPsp
    BY <1>8, PressedOwes DEF PressPsp
  <1>9. CASE PressWebQr
    BY <1>9, PressedOwes DEF PressWebQr
  <1>10. CASE PressProtection
    BY <1>10, PressedOwes DEF PressProtection
  <1>11. CASE PressTheme
    BY <1>11, PressedOwes DEF PressTheme
  <1>12. CASE PressFilter
    BY <1>12, PressedOwes DEF PressFilter
  <1>13. CASE PressSettings
    BY <1>13, PressedOwes DEF PressSettings
  <1>14. CASE PressInstallAll
    BY <1>14, PressedOwes DEF PressInstallAll
  <1>15. CASE PressRequest
    BY <1>15, PressedOwes DEF PressRequest
  <1>16. CASE PressReport
    BY <1>16, PressedOwes DEF PressReport
  <1>17. CASE PressNews
    BY <1>17, PressedOwes DEF PressNews
  <1>18. CASE PressProgress
    BY <1>18, PressedOwes DEF PressProgress
  <1>19. CASE PressCatalog
    BY <1>19, PressedOwes DEF PressCatalog
  <1>20. CASE PressChord
    BY <1>20, PressedOwes DEF PressChord
  <1>21. CASE PressKey
    BY <1>21, PressedOwes DEF PressKey
  <1>22. CASE TouchArchive
    BY <1>22, TouchedOwes DEF TouchArchive
  <1>23. CASE TouchProtection
    BY <1>23, TouchedOwes DEF TouchProtection
  <1>24. CASE TouchReport
    BY <1>24, TouchedOwes DEF TouchReport
  <1>25. CASE TouchData
    BY <1>25, TouchedOwes DEF TouchData
  <1>26. CASE TouchStorageMenu
    BY <1>26, TouchedOwes DEF TouchStorageMenu
  <1>27. CASE TouchSavedZip
    BY <1>27, TouchedOwes DEF TouchSavedZip
  <1>28. CASE TouchWebQr
    BY <1>28, TouchedOwes DEF TouchWebQr
  <1>29. CASE TouchFilter
    BY <1>29, TouchedOwes DEF TouchFilter
  <1>30. CASE TouchReboot
    BY <1>30, TouchedOwes DEF TouchReboot
  <1>31. CASE TouchPlugin
    BY <1>31, TouchedOwes DEF TouchPlugin
  <1>32. CASE TouchEssential
    BY <1>32, TouchedOwes DEF TouchEssential
  <1>33. CASE TouchPsp
    BY <1>33, TouchedOwes DEF TouchPsp
  <1>34. CASE TouchTheme
    BY <1>34, TouchedOwes DEF TouchTheme
  <1>35. CASE TouchNews
    BY <1>35, TouchedOwes DEF TouchNews
  <1>36. CASE TouchInstallAll
    BY <1>36, TouchedOwes DEF TouchInstallAll
  <1>37. CASE TouchProgress
    BY <1>37, TouchedOwes DEF TouchProgress
  <1>38. CASE TouchSettings
    BY <1>38, TouchedOwes DEF TouchSettings
  <1>39. CASE TouchRequest
    BY <1>39, TouchedOwes DEF TouchRequest
  <1>40. CASE TouchCatalog
    BY <1>40, TouchedOwes DEF TouchCatalog
  <1>41. CASE NoTouch
    BY <1>41, NoTouchOwes
  <1>42. CASE KeyboardStays \/ KeyboardEnds
    BY <1>42, KeyboardStaysOwes, KeyboardEndsOwes
  <1>43. CASE WorkEnds \/ Serves
    BY <1>43, WorkEndsOwes, ServesOwes
  <1>44. CASE UNCHANGED vars
    BY <1>44 DEF vars, jobVars, RestartInv, Now
  <1> QED
    BY <1>1, <1>2, <1>3, <1>4, <1>5, <1>6, <1>7, <1>8, <1>9, <1>10, <1>11, <1>12, <1>13,
       <1>14, <1>15, <1>16, <1>17, <1>18, <1>19, <1>20, <1>21, <1>22, <1>23, <1>24, <1>25,
       <1>26, <1>27, <1>28, <1>29, <1>30, <1>31, <1>32, <1>33, <1>34, <1>35, <1>36, <1>37,
       <1>38, <1>39, <1>40, <1>41, <1>42, <1>43, <1>44 DEF Next

\* No restart that a plugin needs is forgotten: some queue, wizard, dialog or unread result
\* always knows of it, whatever the buttons, the finger and the polls of a frame do between
\* queueFirstLinkForFocusedItem, applyPspLiveAreaPluginGateOrRun and the prompt, except as
\* RebootKept says.
THEOREM RestartIsKept == Spec => []RebootKept
  <1>1. Init => ScreenInv /\ RestartInv
    BY ScreenInitially, RestartInitially
  <1>2. ScreenInv /\ RestartInv /\ [Next]_vars => (ScreenInv /\ RestartInv)'
    BY ScreenNext, RestartNext
  <1>3. RestartInv => RebootKept
    <2>1. RestartInv => Due(Now)
      BY DEF RestartInv, Owes
    <2>2. /\ Now.t = truth /\ Now.reboot = reboot /\ Now.e = essential /\ Now.b = batch
          /\ Now.i = installer
      BY DEF Now
    <2> QED
      BY <2>1, <2>2 DEF Due, Clean, RebootKept
  <1> QED
    BY <1>1, <1>2, <1>3, PTL DEF Spec

=============================================================================
