------------------------------ MODULE MCWatcher ------------------------------
(* Small instances of a watcher: batches of two blocks, a chain of a few.  *)
EXTENDS Watcher
=============================================================================
