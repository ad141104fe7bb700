--------------------------- MODULE CatalogRefresh ---------------------------
(***************************************************************************)
(* CatalogManager and the frame of main.cpp that feeds the catalog screen. *)
(*                                                                         *)
(* The UI thread asks for a catalog when the user changes the tab, takes   *)
(* what is ready, and locks the tabs while a load is under way.  The       *)
(* worker thread shows the copy on disk first, then asks the server        *)
(* whether there is a newer one, downloads it, replaces the copy and swaps *)
(* it in.  A request may come between any two steps of the worker, the     *)
(* server may publish a new version, a file operation may fail, and the    *)
(* program may be cut off and started again, with the files it left.       *)
(*                                                                         *)
(* A catalog's text is its version; 0 stands for none.  Progress figures,  *)
(* labels and softRefresh (which only picks a text) are left out.          *)
(***************************************************************************)
EXTENDS Naturals

CONSTANTS
    Catalog,      \* ui::CatalogType
    Homebrew,     \* the catalog of the startup
    MaxVersion,   \* bound on the versions the server publishes of a catalog
    MaxSwitches,  \* bound on the tab changes
    MaxFileFaults,    \* bound on the file operations that fail
    MaxLaunches   \* bound on the restarts

ASSUME HomebrewAssumption == Homebrew \in Catalog
ASSUME BoundAssumption ==
    /\ MaxVersion \in Nat \ {0} /\ MaxSwitches \in Nat
    /\ MaxFileFaults \in Nat /\ MaxLaunches \in Nat

VARIABLES
    frame,      \* where the UI thread is within its frame
    displayed,  \* the tab and the version of its items on the screen
    locked,     \* catalogLoading_: the tabs do not answer
    startup,    \* startupCatalogs
    requested,  \* requestedCatalog_
    pending,    \* requestPending_
    gen,        \* requestGeneration_
    st,         \* status_.state
    ready,      \* readyCatalog_ and readyItems_; version 0 when not readyPending_
    mem,        \* cachedItems_, 0 when not cachedValid_
    task,       \* where the worker is
    w,          \* the worker's local variables
    stopping,   \* stopping_
    disk,       \* the cached catalog files
    meta,       \* the version the .meta validators were taken from, 0 when none
    remote,     \* the version the server has
    switches, fileFaults, launches,
    best        \* history: the newest version ever shown of each catalog

screen  == <<frame, displayed, locked, startup>>
manager == <<requested, pending, gen, st, ready, mem>>
worker  == <<task, w>>
files   == <<disk, meta>>
bounds  == <<switches, fileFaults, launches>>
refreshVars == <<screen, manager, worker, stopping, files, remote, bounds, best>>

Version == 0 .. MaxVersion
Items == [cat : Catalog, ver : Version]
Local == [cat : Catalog, gen : Nat, soft : BOOLEAN,
          ver : Version,   \* the items in hand: diskItems, fresh or loaded
          tag : Version]   \* remoteEtag and remoteModified of the first check
NoWork == [cat |-> Homebrew, gen |-> 0, soft |-> FALSE, ver |-> 0, tag |-> 0]

TypeOK ==
    /\ frame \in {"input", "poll", "take", "cover", "gone"}
    /\ displayed \in Items /\ ready \in Items
    /\ locked \in BOOLEAN /\ startup \in BOOLEAN /\ pending \in BOOLEAN
    /\ requested \in Catalog
    /\ gen \in Nat
    /\ st \in {"Loading", "Ready", "Failed"}
    /\ mem \in [Catalog -> Version] /\ best \in [Catalog -> Version]
    /\ task \in {"idle", "disk", "show", "check", "wait", "consumed", "soft", "hard",
               "validate", "get", "parse", "rename", "tag", "giveUp", "fresh",
               "swap", "judge", "ended"}
    /\ w \in Local
    /\ stopping \in BOOLEAN
    /\ disk \in [Catalog -> Version] /\ meta \in [Catalog -> Version]
    /\ remote \in [Catalog -> Version]
    /\ switches \in 0 .. MaxSwitches /\ fileFaults \in 0 .. MaxFileFaults
    /\ launches \in 0 .. MaxLaunches

-----------------------------------------------------------------------------
(* The UI thread *)

\* As Request, but a catalog in memory is not handed to the screen.
RequestSilent(n) ==
    /\ requested' = n
    /\ IF st # "Loading" /\ mem[n] # 0
       THEN st' = "Ready" /\ pending' = FALSE /\ UNCHANGED gen
       ELSE st' = "Loading" /\ pending' = TRUE /\ gen' = gen + 1
    /\ UNCHANGED <<ready, mem>>

\* request(n): a load under way is retargeted, a catalog in memory is ready at
\* once, and any other one is left to the worker.
Request(n) ==
    /\ requested' = n
    /\ \/ /\ st = "Loading" /\ requested = n
          /\ UNCHANGED <<pending, gen, st, ready>>
       \/ /\ st = "Loading" /\ requested # n
          /\ gen' = gen + 1 /\ pending' = TRUE
          /\ UNCHANGED <<st, ready>>
       \/ /\ st # "Loading" /\ mem[n] # 0
          /\ ready' = [cat |-> n, ver |-> mem[n]]
          /\ st' = "Ready" /\ pending' = FALSE
          /\ UNCHANGED gen
       \/ /\ st # "Loading" /\ mem[n] = 0
          /\ gen' = gen + 1 /\ pending' = TRUE /\ st' = "Loading"
          /\ UNCHANGED ready
    /\ UNCHANGED mem

\* changeCatalog: the screen is emptied and locked before the request.
Switch(n) ==
    /\ frame = "input" /\ frame' = "poll"
    /\ ~locked /\ n # displayed.cat
    /\ switches < MaxSwitches /\ switches' = switches + 1
    /\ displayed' = [cat |-> n, ver |-> 0] /\ locked' = TRUE
    /\ Request(n)
    /\ UNCHANGED <<startup, worker, stopping, files, remote, fileFaults, launches, best>>

\* A frame without a tab change: any other input, a modal, the cooldown.
NoSwitch ==
    /\ frame = "input" /\ frame' = "poll"
    /\ UNCHANGED <<displayed, locked, startup, manager, worker, stopping, files, remote,
                   bounds, best>>

\* The startup's own handling of a failure.
Poll ==
    /\ frame = "poll" /\ frame' = "take"
    /\ startup' = (startup /\ st # "Failed")
    /\ UNCHANGED <<displayed, locked, manager, worker, stopping, files, remote, bounds, best>>

\* takeReady leaves readyCatalog_ behind.
TakeReady == ready' = [ready EXCEPT !.ver = 0]

\* takeReady, and what the frame does with it; the startup only takes its own.
Take ==
    /\ frame = "take" /\ frame' = "cover"
    /\ TakeReady
    /\ IF ready.ver # 0 /\ (startup => ready.cat = Homebrew)
       THEN /\ displayed' = ready /\ startup' = FALSE
            /\ best' = [best EXCEPT ![ready.cat] = IF @ < ready.ver THEN ready.ver ELSE @]
       ELSE UNCHANGED <<displayed, startup, best>>
    /\ UNCHANGED <<locked, requested, pending, gen, st, mem, worker, stopping, files,
                   remote, bounds>>

\* The lock is decided afresh in every frame after the startup; what the steps
\* before did to it is overwritten here.
Cover ==
    /\ frame = "cover" /\ frame' = "input"
    /\ locked' = IF startup THEN locked ELSE pending \/ st = "Loading"
    /\ UNCHANGED <<displayed, startup, manager, worker, stopping, files, remote, bounds, best>>

\* The user leaves: shutdown() tells the worker and waits for it.
Exit ==
    /\ frame = "input" /\ frame' = "gone"
    /\ stopping' = TRUE
    /\ UNCHANGED <<displayed, locked, startup, manager, worker, files, remote, bounds, best>>

-----------------------------------------------------------------------------
(* The worker *)

\* Only a request still to be taken up.
StaleByFlag == pending

Stale == pending \/ w.cat # requested \/ w.gen # gen

Fault == fileFaults < MaxFileFaults /\ fileFaults' = fileFaults + 1

To(at) == task' = at /\ UNCHANGED w
Hold(v, at) == task' = at /\ w' = [w EXCEPT !.ver = v]

quiet == <<screen, stopping, remote, switches, launches, best>>

\* The first copy in memory stays.
PublishFirst ==
    /\ mem' = [mem EXCEPT ![w.cat] = IF @ # 0 THEN @ ELSE w.ver]
    /\ ready' = [cat |-> w.cat, ver |-> w.ver]
    /\ st' = "Ready"
    /\ UNCHANGED <<requested, pending, gen>>

\* publishReady
Publish ==
    /\ mem' = [mem EXCEPT ![w.cat] = w.ver]
    /\ ready' = [cat |-> w.cat, ver |-> w.ver]
    /\ st' = "Ready"
    /\ UNCHANGED <<requested, pending, gen>>

\* isStale() found a newer request: "Switching catalog".
Discard ==
    /\ st' = "Loading"
    /\ UNCHANGED <<requested, pending, gen, ready, mem>>

SetState(s) == st' = s /\ UNCHANGED <<requested, pending, gen, ready, mem>>

Begin ==
    /\ task = "idle" /\ ~stopping /\ pending
    /\ task' = "disk" /\ w' = [NoWork EXCEPT !.cat = requested, !.gen = gen]
    /\ pending' = FALSE /\ st' = "Loading"
    /\ UNCHANGED <<requested, gen, ready, mem, files, fileFaults, quiet>>

End ==
    /\ task = "idle" /\ stopping /\ To("ended")
    /\ UNCHANGED <<manager, files, fileFaults, quiet>>

\* tryLoadDiskCache; a copy that cannot be read counts as none.
ReadDisk ==
    /\ task = "disk"
    /\ \/ disk[w.cat] # 0 /\ Hold(disk[w.cat], "show") /\ UNCHANGED fileFaults
       \/ disk[w.cat] = 0 /\ To("hard") /\ UNCHANGED fileFaults
       \/ disk[w.cat] # 0 /\ Fault /\ To("hard")
    /\ UNCHANGED <<manager, files, quiet>>

\* Cache first.
ShowCopy ==
    /\ task = "show" /\ To("check")
    /\ IF Stale THEN UNCHANGED manager ELSE Publish
    /\ UNCHANGED <<files, fileFaults, quiet>>

Check ==
    /\ task = "check"
    /\ \/ Stale /\ Discard /\ To("idle")
       \/ ~Stale /\ To("wait") /\ UNCHANGED manager
    /\ UNCHANGED <<files, fileFaults, quiet>>

\* Only for the screen, whether or not the program ends.
WaitForScreen ==
    /\ task = "wait"
    /\ Stale \/ ready.ver = 0 \/ ready.cat # w.cat
    /\ To("consumed")
    /\ UNCHANGED <<manager, files, fileFaults, quiet>>

\* "Never overwrite a not-yet-consumed cache-first payload."
Wait ==
    /\ task = "wait"
    /\ stopping \/ Stale \/ ready.ver = 0 \/ ready.cat # w.cat
    /\ To("consumed")
    /\ UNCHANGED <<manager, files, fileFaults, quiet>>

Consumed ==
    /\ task = "consumed"
    /\ \/ stopping /\ To("idle") /\ UNCHANGED manager
       \/ ~stopping /\ Stale /\ Discard /\ To("idle")
       \/ ~stopping /\ ~Stale /\ To("soft") /\ UNCHANGED manager
    /\ UNCHANGED <<files, fileFaults, quiet>>

\* trySoftNetworkRefresh: without HTTP the copy stays.
Soft ==
    /\ task = "soft"
    /\ \/ To("idle") /\ UNCHANGED manager
       \/ /\ task' = "validate" /\ w' = [w EXCEPT !.soft = TRUE]
          /\ SetState("Ready")
    /\ UNCHANGED <<files, fileFaults, quiet>>

\* loadCatalog: from a copy after all, from the network, or not at all.
Hard ==
    /\ task = "hard"
    /\ \/ To("judge") /\ UNCHANGED <<manager, fileFaults>>
       \/ disk[w.cat] # 0 /\ To("validate") /\ SetState("Loading") /\ UNCHANGED fileFaults
       \/ disk[w.cat] = 0 /\ To("get") /\ SetState("Loading") /\ UNCHANGED fileFaults
       \/ disk[w.cat] # 0 /\ Fault /\ To("get") /\ SetState("Loading")
    /\ UNCHANGED <<files, quiet>>

\* validatorsMatch
Match == meta[w.cat] # 0 /\ meta[w.cat] = remote[w.cat]

\* What ends a check that needs no download: the copy will do.
KeepCopy ==
    IF w.soft THEN To("idle") /\ UNCHANGED manager
    ELSE Hold(disk[w.cat], "judge") /\ SetState("Ready")

\* "refresh: unchanged", "cache valid"
Unchanged ==
    /\ task = "validate" /\ Match
    /\ KeepCopy
    /\ UNCHANGED <<files, fileFaults, quiet>>

Offline ==
    /\ task = "validate"
    /\ KeepCopy
    /\ UNCHANGED <<files, fileFaults, quiet>>

\* Other validators than those kept, or a server that sends none.
Outdated ==
    /\ task = "validate" /\ task' = "get"
    /\ \/ ~Match /\ w' = [w EXCEPT !.tag = remote[w.cat]]
       \/ w' = [w EXCEPT !.tag = 0]
    /\ SetState(IF w.soft THEN "Ready" ELSE "Loading")
    /\ UNCHANGED <<files, fileFaults, quiet>>

\* The progress callback of a soft refresh writes the state each time.
DownloadProgress ==
    /\ task = "get" /\ w.soft
    /\ SetState("Ready")
    /\ UNCHANGED <<worker, files, fileFaults, quiet>>

Download ==
    /\ task = "get"
    /\ Hold(remote[w.cat], "parse") \/ To("giveUp")
    /\ UNCHANGED <<manager, files, fileFaults, quiet>>

\* Identical to the copy: only the validators are renewed.
Identical ==
    /\ task = "parse" /\ w.soft /\ disk[w.cat] = w.ver
    /\ meta' = [meta EXCEPT ![w.cat] = w.tag]
    /\ To("idle")
    /\ UNCHANGED <<manager, disk, fileFaults, quiet>>

\* A text that parses takes the place of the copy, which is removed first.
Parse ==
    /\ task = "parse" /\ ~(w.soft /\ disk[w.cat] = w.ver)
    /\ \/ disk' = [disk EXCEPT ![w.cat] = 0] /\ To("rename") /\ UNCHANGED fileFaults
       \/ Fault /\ To("giveUp") /\ UNCHANGED disk
    /\ UNCHANGED <<manager, meta, quiet>>

Rename ==
    /\ task = "rename"
    /\ \/ disk' = [disk EXCEPT ![w.cat] = w.ver] /\ To("tag") /\ UNCHANGED fileFaults
       \/ Fault /\ To("giveUp") /\ UNCHANGED disk
    /\ UNCHANGED <<manager, meta, quiet>>

\* The validators are asked for again, and written if that can be.
Tag ==
    /\ task = "tag"
    /\ \E t \in {remote[w.cat], 0, meta[w.cat]} : meta' = [meta EXCEPT ![w.cat] = t]
    /\ To(IF w.soft THEN "fresh" ELSE "judge")
    /\ UNCHANGED <<manager, disk, fileFaults, quiet>>

\* The download is dropped; a hard load tries the copy once more.
GiveUp ==
    /\ task = "giveUp"
    /\ IF w.soft THEN To("idle") ELSE Hold(disk[w.cat], "judge")
    /\ UNCHANGED <<manager, files, fileFaults, quiet>>

Fresh ==
    /\ task = "fresh"
    /\ \/ Stale /\ Discard /\ To("idle")
       \/ ~Stale /\ To("swap") /\ UNCHANGED manager
    /\ UNCHANGED <<files, fileFaults, quiet>>

\* The hot swap, unless a request came in between.
Swap ==
    /\ task = "swap" /\ To("idle")
    /\ IF Stale THEN UNCHANGED manager ELSE Publish
    /\ UNCHANGED <<files, fileFaults, quiet>>

\* The end of a hard load.
Judge ==
    /\ task = "judge" /\ To("idle")
    /\ \/ Stale /\ Discard
       \/ ~Stale /\ w.ver # 0 /\ Publish
       \/ ~Stale /\ w.ver = 0 /\ SetState("Failed")
    /\ UNCHANGED <<files, fileFaults, quiet>>

-----------------------------------------------------------------------------
(* The environment *)

\* The server publishes a new version.
NewVersion(c) ==
    /\ remote[c] < MaxVersion
    /\ remote' = [remote EXCEPT ![c] = @ + 1]
    /\ UNCHANGED <<screen, manager, worker, stopping, files, bounds, best>>

\* The main loop has asked for Homebrew and shows the lock; files are as found.
RefreshInit ==
    /\ frame = "input" /\ displayed = [cat |-> Homebrew, ver |-> 0]
    /\ locked = TRUE /\ startup = TRUE
    /\ requested = Homebrew /\ pending = TRUE /\ gen = 1 /\ st = "Loading"
    /\ ready = [cat |-> Homebrew, ver |-> 0]
    /\ mem = [c \in Catalog |-> 0]
    /\ task = "idle" /\ w = NoWork /\ stopping = FALSE
    /\ disk \in [Catalog -> {0, 1}] /\ meta = disk
    /\ remote = [c \in Catalog |-> 1]
    /\ switches = 0 /\ fileFaults = 0 /\ launches = 0
    /\ best = [c \in Catalog |-> 0]

\* At any time, after a power cut, a crash or an exit: the program starts again.
Relaunch ==
    /\ launches < MaxLaunches /\ launches' = launches + 1
    /\ frame' = "input" /\ displayed' = [cat |-> Homebrew, ver |-> 0]
    /\ locked' = TRUE /\ startup' = TRUE
    /\ requested' = Homebrew /\ pending' = TRUE /\ gen' = 1 /\ st' = "Loading"
    /\ ready' = [cat |-> Homebrew, ver |-> 0]
    /\ mem' = [c \in Catalog |-> 0]
    /\ task' = "idle" /\ w' = NoWork /\ stopping' = FALSE
    /\ UNCHANGED <<files, remote, switches, fileFaults, best>>

Frame == NoSwitch \/ Poll \/ Take \/ Cover

Work ==
    \/ Begin \/ End \/ ReadDisk \/ ShowCopy \/ Check \/ Wait \/ Consumed
    \/ Soft \/ Hard \/ Unchanged \/ Offline \/ Outdated \/ Download
    \/ Identical \/ Parse \/ Rename \/ Tag \/ GiveUp \/ Fresh \/ Swap \/ Judge

RefreshNext ==
    \/ Frame
    \/ \E n \in Catalog : Switch(n)
    \/ Exit
    \/ Work
    \/ DownloadProgress
    \/ \E c \in Catalog : NewVersion(c)
    \/ Relaunch

\* Frames go on, and so does the worker: every HTTP call has a timeout.
RefreshSpec == RefreshInit /\ [][RefreshNext]_refreshVars /\ WF_refreshVars(Frame) /\ WF_refreshVars(Work)

-----------------------------------------------------------------------------
(* Properties *)

\* What the screen shows of a catalog is never older than what it ever showed
\* of it, whatever came out of memory, from disk, from the network, late, or
\* after a restart (publishReady, cachedItems_, the replacement of the file).
NeverOlder == displayed.ver # 0 => displayed.ver = best[displayed.cat]

\* Once the screen shows the catalog last asked for, no late result of another
\* one takes its place (the generation tests around every publication).
KeepsTab ==
    [][ /\ displayed.ver # 0 /\ displayed.cat = requested
        /\ requested' = requested /\ launches' = launches
        => displayed'.cat = requested /\ displayed'.ver # 0 ]_refreshVars

\* When the user stops changing tabs, the screen ends up with the catalog last
\* asked for, or with a failure to load it.
Settles ==
    <>[](frame = "gone" \/ st = "Failed" \/ (displayed.cat = requested /\ displayed.ver # 0))

\* shutdown() does not wait for ever, not even for a payload no frame will take.
WorkerEnds == stopping ~> task = "ended" \/ ~stopping
=============================================================================
