---------------------------- MODULE MCMonitorUI ----------------------------
(* TLC instance of MonitorUI: the constants are given in the .cfg file.    *)
EXTENDS MonitorUI

=============================================================================
