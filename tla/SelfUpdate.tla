------------------------------ MODULE SelfUpdate -------------------------------
(***************************************************************************)
(* The client's update of itself: StartupUpdateManager and the worker of   *)
(* the settings screen run UpdateChecker::applyUpdate, which stages the    *)
(* new package and installs the helper PSVAUPDT1; the helper               *)
(* (updater/main.c) promotes what is staged while the client is not        *)
(* running, and the next start of the client (main.cpp) cleans up.         *)
(*                                                                         *)
(* The staging directory psva_vpk is also the one of every homebrew        *)
(* install, so it is two things: the payload and the head.bin made for it, *)
(* each of a version of the client, of another title, torn, or not there.  *)
(* The promoter installs a package as a whole or not at all.               *)
(***************************************************************************)
EXTENDS Naturals

CONSTANTS
    MaxClient,    \* versions of the client are 1 .. MaxClient
    MaxReleases,  \* bound on the changes of the published release
    MaxFailures,  \* bound on failed operations and power cuts
    MaxWhims      \* bound on what the user does beyond starting and leaving the client

ASSUME BoundAssumption ==
    /\ MaxClient \in Nat \ {0} /\ MaxReleases \in Nat
    /\ MaxFailures \in Nat /\ MaxWhims \in Nat

VARIABLES
    client,        \* the client installed
    release,       \* the release GitHub names
    releases,
    enabled,       \* the setting startupUpdateCheck
    stage, legacy, \* psva_vpk, and the directory older clients staged to
    vpk,           \* update/PSVitaAlive.vpk
    bubble,        \* PSVAUPDT1 is installed
    main,          \* where the client's main thread is; "off" when it is not running
    applying,      \* where applyUpdate is
    found,         \* the release applyUpdate installs
    cancel, restart, checked,
    hb,            \* a homebrew install of the client
    updater,       \* where PSVAUPDT1 is
    failures, whims

storage == <<client, stage, legacy, vpk, bubble>>
memory == <<applying, found, cancel, restart, checked, hb>>
world == <<release, releases, enabled>>
updateVars == <<storage, memory, world, main, updater, failures, whims>>

None == 0
Torn == MaxClient + 1
Other == MaxClient + 2
ClientVersion == 1 .. MaxClient
Piece == None .. Other
Package == [eboot : Piece, head : Piece]
Empty == [eboot |-> None, head |-> None]
Whole(v) == [eboot |-> v, head |-> v]

TypeOK ==
    /\ client \in ClientVersion /\ release \in ClientVersion /\ releases \in 0 .. MaxReleases
    /\ enabled \in BOOLEAN /\ bubble \in BOOLEAN
    /\ stage \in Package /\ legacy \in Package /\ vpk \in Piece
    /\ main \in {"off", "maintenance", "bubble", "check", "loop", "join", "session"}
    /\ applying \in {"off", "clean", "download", "extract", "build", "helper", "applied", "failed"}
    /\ found \in None .. MaxClient
    /\ cancel \in BOOLEAN /\ restart \in BOOLEAN /\ checked \in BOOLEAN
    /\ hb \in {"off", "extract", "head", "promote"}
    /\ updater \in {"off", "find", "promote", "verify", "failed"}
    /\ failures \in 0 .. MaxFailures /\ whims \in 0 .. MaxWhims

Failure == failures < MaxFailures /\ failures' = failures + 1
Smooth == UNCHANGED failures
Whim == whims < MaxWhims /\ whims' = whims + 1

\* removeTree: a removal that fails leaves anything.
Left(dir) == [eboot : {None, dir.eboot}, head : {None, dir.head}]
StageCleared == (Smooth /\ stage' = Empty) \/ (stage # Empty /\ Failure /\ stage' \in Left(stage))

-----------------------------------------------------------------------------
(* The client's main thread *)

Reset ==
    /\ applying' = "off" /\ found' = None /\ cancel' = FALSE /\ restart' = FALSE
    /\ checked' = FALSE /\ hb' = "off"

OpenClient ==
    /\ main = "off" /\ updater = "off" /\ main' = "maintenance"
    /\ UNCHANGED <<storage, memory, world, updater, failures, whims>>

\* cleanupTransient: nothing staged survives a start of the client.
Maintenance ==
    /\ main = "maintenance" /\ main' = "bubble"
    /\ StageCleared
    /\ UNCHANGED <<client, legacy, vpk, bubble, memory, world, updater, whims>>

\* cleanupUpdaterBubble: the helper goes, and the download with it.
CleanBubble ==
    /\ main = "bubble" /\ main' = "check"
    /\ \/ ~bubble /\ Smooth /\ UNCHANGED <<bubble, vpk>>
       \/ bubble /\ Smooth /\ bubble' = FALSE /\ vpk' = None
       \/ bubble /\ Failure /\ UNCHANGED <<bubble, vpk>>
       \/ bubble /\ Failure /\ UNCHANGED bubble /\ vpk' = None
       \/ bubble /\ Failure /\ bubble' = FALSE /\ UNCHANGED vpk
    /\ UNCHANGED <<client, stage, legacy, memory, world, updater, whims>>

IsUpdate == client < release
Latest == IF IsUpdate THEN release ELSE None

\* StartupUpdateManager::start.
StartupCheck ==
    /\ main = "check"
    /\ \/ /\ main' = "session" /\ UNCHANGED <<applying, found>>
          /\ (~enabled /\ Smooth) \/ (enabled /\ Latest = None /\ Smooth) \/ (enabled /\ Failure)
       \/ /\ enabled /\ Latest # None /\ Smooth
          /\ main' = "loop" /\ applying' = "clean" /\ found' = Latest
    /\ UNCHANGED <<storage, cancel, restart, checked, hb, world, updater, whims>>

\* The user leaves the screen that shows the update: the client goes on.
CancelUpdate ==
    /\ main = "loop" /\ applying \notin {"applied", "failed"} /\ Whim
    /\ main' = "join" /\ cancel' = TRUE
    /\ UNCHANGED <<storage, applying, found, restart, checked, hb, world, updater, failures>>

Restarts == applying = "applied" /\ ~cancel

WorkerEnds ==
    /\ main \in {"loop", "join"} /\ applying \in {"applied", "failed"}
    /\ applying' = "off" /\ main' = "join" /\ restart' = Restarts
    /\ UNCHANGED <<storage, found, cancel, checked, hb, world, updater, failures, whims>>

JoinAndSweep ==
    /\ main = "join" /\ applying = "off"
    /\ Reset
    /\ IF restart
       THEN main' = "off" /\ updater' = IF bubble THEN "find" ELSE "off"
       ELSE main' = "session" /\ UNCHANGED updater
    /\ stage' = Empty
    /\ UNCHANGED <<client, legacy, vpk, bubble, world, failures, whims>>

\* wait() has returned: the helper is launched, the client exits; a helper that
\* is not there cannot be launched.
Join ==
    /\ main = "join" /\ applying = "off"
    /\ Reset
    /\ IF restart
       THEN main' = "off" /\ updater' = IF bubble THEN "find" ELSE "off"
       ELSE main' = "session" /\ UNCHANGED updater
    /\ UNCHANGED <<storage, world, failures, whims>>

Leave ==
    /\ main = "session" /\ main' = "off" /\ Reset
    /\ UNCHANGED <<storage, world, updater, failures, whims>>

-----------------------------------------------------------------------------
(* The settings screen *)

Idle == main = "session" /\ applying = "off" /\ hb = "off"

\* The first press of the row looks for a release, the second installs it.
SettingsCheck ==
    /\ Idle /\ ~(checked /\ found # None) /\ Whim
    /\ checked' = TRUE
    /\ (Smooth /\ found' = Latest) \/ (Failure /\ found' = None)
    /\ UNCHANGED <<storage, applying, cancel, restart, hb, main, world, updater>>

SettingsApply ==
    /\ Idle /\ checked /\ found # None /\ Whim
    /\ applying' = "clean"
    /\ UNCHANGED <<storage, found, cancel, restart, checked, hb, main, world, updater, failures>>

\* "Update installed - press START to exit, then reopen": nothing has launched the
\* helper, and the start that follows removes what was staged (README, section 15).
SettingsDone ==
    /\ main = "session" /\ applying \in {"applied", "failed"}
    /\ applying' = "off"
    /\ UNCHANGED <<storage, found, cancel, restart, checked, hb, world, main, updater, failures, whims>>

-----------------------------------------------------------------------------
(* applyUpdate *)

Alone == UNCHANGED <<client, found, cancel, restart, checked, hb, world, main, updater, whims>>

\* What earlier updates left is removed, as far as it can be.
AfterClean == IF cancel THEN "failed" ELSE "download"
Clean ==
    /\ applying = "clean"
    /\ \/ applying' = "failed" /\ Failure /\ UNCHANGED <<vpk, legacy, stage>>
       \/ applying' = AfterClean /\ vpk' = None /\ legacy' = Empty /\ StageCleared
       \/ /\ applying' = AfterClean /\ Failure
          /\ vpk' \in {None, vpk} /\ legacy' \in Left(legacy) /\ stage' = Empty
    /\ UNCHANGED bubble /\ Alone

Download ==
    /\ applying = "download"
    /\ \/ applying' = "extract" /\ vpk' = found /\ Smooth
       \/ applying' = "failed" /\ Failure /\ vpk' \in {None, Torn}
       \/ applying' = "failed" /\ cancel /\ Smooth /\ vpk' = None
    /\ UNCHANGED <<bubble, legacy, stage>> /\ Alone

\* The payload is unpacked over what the removal left; a failed extraction is
\* removed again, the .vpk is kept "for manual recovery".
ExtractOver ==
    /\ applying = "extract"
    /\ \/ applying' = "build" /\ Smooth /\ stage' = [stage EXCEPT !.eboot = vpk]
       \/ applying' = "failed" /\ ((cancel /\ Smooth) \/ Failure) /\ stage' = Empty
    /\ UNCHANGED <<bubble, legacy, vpk>> /\ Alone
Extract ==
    /\ applying = "extract"
    /\ \/ applying' = "build" /\ Smooth /\ stage' = [eboot |-> vpk, head |-> None]
       \/ applying' = "build" /\ Failure /\ \E rest \in Left(stage) : stage' = [rest EXCEPT !.eboot = vpk]
       \/ applying' = "failed" /\ cancel /\ Smooth /\ stage' = Empty
       \/ /\ applying' = "failed" /\ Failure
          /\ \E e \in {None, Torn, vpk} : stage' = [eboot |-> e, head |-> None]
    /\ UNCHANGED <<bubble, legacy, vpk>> /\ Alone

\* FakePackageBuilder: a head.bin that is there is left as it is.
Headed(h, v) == IF h # None THEN h ELSE v
Build ==
    /\ applying = "build"
    /\ \/ applying' = "helper" /\ Smooth /\ stage' = [stage EXCEPT !.head = Headed(@, stage.eboot)]
       \/ /\ applying' = "failed" /\ stage.head = None /\ Failure
          /\ \E h \in {None, Torn} : stage' = [stage EXCEPT !.head = h]
    /\ UNCHANGED <<bubble, legacy, vpk>> /\ Alone

\* installUpdaterHelper: an error of the promoter while it is polled counts as success.
Helper ==
    /\ applying = "helper"
    /\ \/ applying' = "applied" /\ bubble' = TRUE /\ Smooth
       \/ applying' = "applied" /\ UNCHANGED bubble /\ Failure
       \/ applying' = "failed" /\ UNCHANGED bubble /\ Failure
    /\ UNCHANGED <<legacy, vpk, stage>> /\ Alone

-----------------------------------------------------------------------------
(* A homebrew install, which stages to the same directory; VpkInstall has it whole. *)

Install(from, to, package) ==
    /\ hb = from /\ hb' = to /\ stage' = package
    /\ UNCHANGED <<client, legacy, vpk, bubble, applying, found, cancel, restart, checked>>
    /\ UNCHANGED <<main, world, updater>>

Homebrew ==
    \/ Idle /\ Whim /\ Install("off", "extract", Empty) /\ Smooth
    \/ Install("extract", "head", [stage EXCEPT !.eboot = Other]) /\ Smooth /\ UNCHANGED whims
    \/ Install("head", "promote", [stage EXCEPT !.head = Other]) /\ Smooth /\ UNCHANGED whims
    \/ Install("promote", "off", Empty) /\ Smooth /\ UNCHANGED whims
    \/ hb # "off" /\ Install(hb, "off", Empty) /\ Failure /\ UNCHANGED whims

-----------------------------------------------------------------------------
(* PSVAUPDT1 *)

\* The user starts it from LiveArea; it ends every other application.
OpenUpdater ==
    /\ bubble /\ updater = "off" /\ Whim
    /\ updater' = "find" /\ main' = "off" /\ Reset
    /\ UNCHANGED <<storage, world, failures>>

Calm == UNCHANGED <<vpk, bubble, memory, world, main, whims>>

\* ensurePromoteDirReady.
Find ==
    /\ updater = "find"
    /\ \/ stage.eboot # None /\ updater' = "promote" /\ Smooth /\ UNCHANGED <<stage, legacy>>
       \/ /\ stage.eboot = None /\ legacy.eboot # None /\ updater' = "promote" /\ Smooth
          /\ stage' = legacy /\ legacy' = Empty
       \/ /\ stage.eboot = None /\ legacy.eboot # None /\ updater' = "failed" /\ Failure
          /\ stage' \in Left(stage) /\ UNCHANGED legacy
       \/ /\ stage.eboot = None /\ legacy.eboot = None /\ updater' = "failed" /\ Smooth
          /\ UNCHANGED <<stage, legacy>>
    /\ UNCHANGED client /\ Calm

\* promotePackageHomebrewStyle: a promoter that has ended is believed, also when
\* the package is still there; one that has not is a failure.
Installable(package) == package.eboot = package.head /\ package.eboot # Torn
Promote ==
    /\ updater = "promote"
    /\ \/ stage.head = None /\ updater' = "failed" /\ Smooth /\ UNCHANGED <<client, stage>>
       \/ stage.head # None /\ updater' = "failed" /\ Failure /\ UNCHANGED <<client, stage>>
       \/ /\ stage.head # None /\ updater' = "verify"
          /\ (~Installable(stage) /\ Smooth) \/ Failure
          /\ UNCHANGED <<client, stage>>
       \/ /\ Installable(stage) /\ updater' = "verify" /\ Smooth
          /\ client' = IF stage.eboot \in ClientVersion THEN stage.eboot ELSE client
          /\ stage' = Empty
    /\ UNCHANGED legacy /\ Calm

\* A client is installed, whichever: the staging goes and it is launched.
Verify ==
    /\ updater = "verify" /\ updater' = "off" /\ main' = "maintenance"
    /\ \/ StageCleared /\ legacy' = Empty
       \/ stage' = Empty /\ legacy # Empty /\ Failure /\ legacy' \in Left(legacy)
    /\ UNCHANGED <<client, vpk, bubble, memory, world, whims>>

\* failLoop shows the error until the user closes it.
CloseUpdater ==
    /\ updater = "failed" /\ updater' = "off"
    /\ UNCHANGED <<storage, memory, world, main, failures, whims>>

-----------------------------------------------------------------------------
(* The world *)

\* The power goes; what is being written is cut.
PowerCut ==
    /\ (main # "off" \/ updater # "off") /\ Failure
    /\ main' = "off" /\ updater' = "off" /\ Reset
    /\ vpk' \in IF applying = "download" THEN {None, Torn, found} ELSE {vpk}
    /\ stage' \in CASE applying = "extract" -> {[stage EXCEPT !.eboot = e] : e \in {None, Torn, found}}
                    [] applying = "build" /\ stage.head = None ->
                         {[stage EXCEPT !.head = h] : h \in {None, Torn, found}}
                    [] hb = "extract" -> {[stage EXCEPT !.eboot = e] : e \in {None, Torn, Other}}
                    [] hb = "head" -> {[stage EXCEPT !.head = h] : h \in {None, Torn, Other}}
                    [] hb = "promote" -> {stage, Empty}
                    [] OTHER -> {stage}
    /\ UNCHANGED <<client, legacy, bubble, world, whims>>

\* A release is published, or taken back.
Publish(v) ==
    /\ releases < MaxReleases /\ v # release
    /\ release' = v /\ releases' = releases + 1
    /\ UNCHANGED <<storage, memory, enabled, main, updater, failures, whims>>

UpdateInit ==
    /\ client = 1 /\ release = 1 /\ releases = 0 /\ enabled \in BOOLEAN
    /\ stage = Empty /\ vpk = None /\ bubble \in BOOLEAN
    /\ legacy \in {Empty, Whole(1)}
    /\ main = "off" /\ updater = "off"
    /\ applying = "off" /\ found = None /\ cancel = FALSE /\ restart = FALSE /\ checked = FALSE /\ hb = "off"
    /\ failures = 0 /\ whims = 0

Apply == Clean \/ Download \/ Extract \/ Build \/ Helper
Helping == Find \/ Promote \/ Verify \/ CloseUpdater
Running ==
    OpenClient \/ Maintenance \/ CleanBubble \/ StartupCheck \/ WorkerEnds \/ Join \/ Leave \/ SettingsDone

UpdateNext ==
    \/ Running \/ Apply \/ Helping
    \/ CancelUpdate \/ SettingsCheck \/ SettingsApply \/ Homebrew \/ OpenUpdater
    \/ PowerCut \/ \E v \in ClientVersion : Publish(v)

UpdateSpec == UpdateInit /\ [][UpdateNext]_updateVars
UpdateFairSpec == UpdateSpec /\ WF_updateVars(Running) /\ WF_updateVars(Apply) /\ WF_updateVars(Helping)

-----------------------------------------------------------------------------
(* Properties *)

\* What applyUpdate calls ready is one package, the payload and the head.bin of
\* the release it was asked for, newer than the client, with its .vpk beside it,
\* whatever the directory held and whichever removal failed.
AppliedIsWhole ==
    applying = "applied" /\ failures <= 1 => stage = Whole(found) /\ vpk = found /\ client < found

\* With the check at startup enabled, the client that is opened again and again
\* ends up at the release, after whatever failed, was cut off or cancelled.
UpdatedAtLast == <>[](enabled => client >= release)
=============================================================================
