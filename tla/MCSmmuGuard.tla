---------------------------- MODULE MCSmmuGuard ----------------------------
(* TLC instance of SmmuGuard: the constants are given in the .cfg files.   *)
EXTENDS SmmuGuard

=============================================================================
