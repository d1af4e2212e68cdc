---------------------------- MODULE MCCtxMonitor ----------------------------
(* TLC instance of CtxMonitor: two pages and addresses inside and outside. *)
EXTENDS CtxMonitor

MCPages == {<<2, 3>>, <<3, 5>>}

=============================================================================
