------------------------- MODULE MCDiagnosticLogger -------------------------
(* A small instance of DiagnosticLogger for TLC. *)
EXTENDS DiagnosticLogger
=============================================================================
