---------------------------- MODULE MCBadDriver ----------------------------
(* TLC instance of BadDriver: one stored value per attack mode.            *)
EXTENDS BadDriver

CONSTANTS BAD1, BAD2, BAD3

MCForeignValues == {BAD1, BAD2, BAD3}
MCBadValue == <<BAD1, BAD2, BAD3>>

=============================================================================
