----------------------------- MODULE MCWebStorage -----------------------------
(* Two or three files, one directory under the root, blocks of two bytes. *)
EXTENDS WebStorage

MCDirs == {"db", "docs"}
MCUsed == [opfs |-> Files, indexeddb |-> {"log"}]
MCParent == [p \in Files \cup {"docs"} |-> IF p = "log" THEN "docs" ELSE "db"]
=============================================================================
