----------------------------- MODULE MCVpkInstall -----------------------------
(* Every kind of package, for an application that is new, installed, or half there. *)
EXTENDS VpkInstall

MCPackages == Kinds
=============================================================================
