----------------------------- MODULE MCZipExtract -----------------------------
(* Archives of up to four entries over two ordinary files and three deep ones in two folders. *)
EXTENDS ZipExtract

MCPaths == {"a", "b", "x1", "x2", "y"}
MCBranch == [p \in MCPaths |-> CASE p \in {"x1", "x2"} -> "X" [] p = "y" -> "Y" [] OTHER -> NoBranch]

E(p, n, kind) == [path |-> p, size |-> n, kind |-> kind]
MCArchives ==
  { <<E("a", 2, "good"), E("b", 1, "good")>>,                                                  \* new before replaced
    <<E("a", 1, "good"), E("a", 2, "good"), E("b", 1, "corrupt")>>,                            \* a path named twice
    <<E("a", 1, "good"), E("x1", 1, "good"), E("x2", 2, "good"), E("y", 1, "good")>>,          \* two deep folders
    <<E("y", 2, "good"), E("b", 1, "good"), E("y", 1, "good")>>,                               \* a deep file twice
    <<E("x1", 1, "good"), E("b", 1, "unsupported")>>,
    <<E("y", 1, "good"), E("b", 1, "unsafe")>> }

\* a and b may be there, b longer than what replaces it; a file of the user may lie in the folder X.
MCOldSizes == {old \in [MCPaths -> 0..4] : old["a"] \in {0, 1} /\ old["b"] \in {0, 4} /\ old["x1"] = 0
                                            /\ old["x2"] \in {0, 1} /\ old["y"] = 0}
=============================================================================
