---------------------------- MODULE MCSafetyMem ----------------------------
(* TLC instance of SafetyMem: the constants are given in the .cfg files.   *)
EXTENDS SafetyMem

=============================================================================
