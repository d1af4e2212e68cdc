----------------------------- MODULE BoundedLog -----------------------------
(***************************************************************************)
(* What a fault log promises: it holds the last Capacity entries, oldest   *)
(* first.  LogRing implements it; CtxMonitor and SmmuGuard log through it. *)
(***************************************************************************)
EXTENDS Naturals, Sequences

CONSTANTS Entries, Capacity

VARIABLE log

Push(l, e) == Append(IF Len(l) < Capacity THEN l ELSE Tail(l), e)

Init == log = <<>>

Next == \E e \in Entries : log' = Push(log, e)

Spec == Init /\ [][Next]_log

=============================================================================
