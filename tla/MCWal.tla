-------------------------------- MODULE MCWal --------------------------------
(* Wal with a few standalone writes and batches.                             *)
EXTENDS Wal
===============================================================================
