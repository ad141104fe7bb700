---------------------------- MODULE MCZipRecovery ----------------------------
(* Small instances of ZipRecovery for TLC. *)
EXTENDS ZipRecovery, TLC

CONSTANTS j1, j2, j3

\* Archives of two and of four ranges, and a single file, which may be an older
\* client's.
TwoFourOne == (j1 :> 2) @@ (j2 :> 4) @@ (j3 :> 1)
=============================================================================
