---------------------------- MODULE MCInstalledData ----------------------------
(* A small instance of InstalledData for TLC: one game with a directory and its *)
(* parent declared, and one that shares the inner directory.                  *)
EXTENDS InstalledData, TLC
CONSTANTS a, b, outer, inner
DeclaredRoots == (a :> {outer, inner}) @@ (b :> {inner})
InsideOf == {<<inner, outer>>}
=============================================================================
