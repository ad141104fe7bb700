---------------------------- MODULE MCInstallJob ----------------------------
(* Small instances of InstallJob for TLC. *)
EXTENDS InstallJob
=============================================================================
