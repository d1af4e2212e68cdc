--------------------------- MODULE MCMutexThreads ---------------------------
(* TLC instance of MutexThreads: the constants are given in the .cfg files. *)
EXTENDS MutexThreads

=============================================================================
