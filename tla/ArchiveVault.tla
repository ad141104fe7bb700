---------------------------- MODULE ArchiveVault ----------------------------
(***************************************************************************)
(* What saving a downloaded ZIP before extracting it promises: once the    *)
(* archive of a job is held it stays held, whole, until it is dropped by   *)
(* an extraction that succeeded or by a deletion the user asked for.       *)
(* docs/ZIP_RECOVERY_POWER_LOSS_20261027.md states this promise;           *)
(* ZipRecovery is the code that keeps it across power cuts.                *)
(***************************************************************************)
CONSTANTS Job,        \* download jobs
          Inherited   \* jobs whose archive an older client already kept

VARIABLE archive      \* per job: "absent", "held" or "dropped"

Init == archive = [j \in Job |-> IF j \in Inherited THEN "held" ELSE "absent"]

\* A downloaded archive comes under protection.
Hold(j) ==
    /\ archive[j] = "absent"
    /\ archive' = [archive EXCEPT ![j] = "held"]

\* Success or an explicit deletion gives up the archives in S.
Drop(S) ==
    /\ \A j \in S : archive[j] = "held"
    /\ archive' = [j \in Job |-> IF j \in S THEN "dropped" ELSE archive[j]]

Next == (\E j \in Job : Hold(j)) \/ (\E S \in SUBSET Job : Drop(S))

Spec == Init /\ [][Next]_archive
=============================================================================
