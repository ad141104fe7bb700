---------------------------- MODULE MCImageCache ----------------------------
(* Small instances of ImageCache for TLC. *)
EXTENDS ImageCache

\* One picture whose URL a catalog update changes and one whose URL stays.
MCPaths == {<<"icon", 1>>, <<"icon", 2>>, <<"shot", 1>>}
=============================================================================
