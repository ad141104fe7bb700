-------------------------- MODULE MCCatalogRefresh --------------------------
(* Small instances of CatalogRefresh for TLC. *)
EXTENDS CatalogRefresh
=============================================================================
