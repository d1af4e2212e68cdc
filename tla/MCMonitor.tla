----------------------------- MODULE MCMonitor -----------------------------
(* Instance of Monitor, and with it of Harness, for TLC.                   *)
EXTENDS Monitor

=============================================================================
