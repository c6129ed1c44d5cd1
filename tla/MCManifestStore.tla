--------------------------- MODULE MCManifestStore ---------------------------
(* ManifestStore on three roots and a few commits.                          *)
EXTENDS ManifestStore
===============================================================================
