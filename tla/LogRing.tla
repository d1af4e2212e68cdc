------------------------------ MODULE LogRing ------------------------------
(***************************************************************************)
(* The fault log of ctx_monitor.c (log_ring, log_head, log_count under     *)
(* log_lock) and, with the same code, of smmu_guard.c.  Contexts (CPUs in  *)
(* a fault handler, processes reading the proc file) append entries and    *)
(* copy the log out; the spinlock is the only thing that orders them.      *)
(* SmmuGuard puts the ring into the life of its module.                    *)
(***************************************************************************)
EXTENDS Naturals, Sequences

CONSTANTS
  Contexts,  \* fault handlers and proc readers
  Entries,   \* log records
  Blank,     \* a slot that was never written
  Capacity   \* DEMO_LOG_CAPACITY

ASSUME LogRingAssumption ==
  /\ Capacity \in Nat \ {0}
  /\ Blank \notin Entries

VARIABLES
  ring,      \* log_ring
  head,      \* log_head: the slot the next entry goes to
  count,     \* log_count
  lock,      \* holder of log_lock, as a set of at most one context
  pc,        \* where each context is
  entry,     \* the record a context is logging
  snapshot,  \* the array a reader copies into (its first n slots)
  total,     \* local "count" of a reader
  seen       \* history: the log at the moment a reader took the lock

vars == <<ring, head, count, lock, pc, entry, snapshot, total, seen>>

Slots == 0 .. Capacity - 1

(* A slip for mutation: a full ring is read from slot 0.                   *)
SlotUnrotated(h, n, i) == i

(* The order in which proc_show() reads n entries of ring r with head h:   *)
(* a full ring starts at its head, any other at slot 0.                    *)
SlotOf(h, n, i) == IF n = Capacity THEN (h + i) % Capacity ELSE i

Contents(r, h, n) == [i \in 1 .. n |-> r[SlotOf(h, n, i - 1)]]

NextHead(h)  == (h + 1) % Capacity
NextCount(n) == IF n < Capacity THEN n + 1 ELSE n

Init ==
  /\ ring = [i \in Slots |-> Blank]
  /\ head = 0 /\ count = 0 /\ lock = {}
  /\ pc = [c \in Contexts |-> "idle"]
  /\ entry = [c \in Contexts |-> Blank]
  /\ snapshot = [c \in Contexts |-> <<>>]
  /\ total = [c \in Contexts |-> 0]
  /\ seen = [c \in Contexts |-> <<>>]

Goto(c, l) == pc' = [pc EXCEPT ![c] = l]

-----------------------------------------------------------------------------
(* log_fault_event() and smmu_guard_log_blocked_dma().                     *)

LogBegin(c, e) ==
  /\ pc[c] = "idle"
  /\ entry' = [entry EXCEPT ![c] = e]
  /\ Goto(c, "logSpin")
  /\ UNCHANGED <<ring, head, count, lock, snapshot, total, seen>>

(* A slip for mutation: an entry is written without log_lock.              *)
LogLockForgotten(c) ==
  /\ pc[c] = "logSpin"
  /\ Goto(c, "fill")
  /\ UNCHANGED <<ring, head, count, lock, entry, snapshot, total, seen>>

LogLock(c) ==
  /\ pc[c] = "logSpin" /\ lock = {}
  /\ lock' = {c}
  /\ Goto(c, "fill")
  /\ UNCHANGED <<ring, head, count, entry, snapshot, total, seen>>

LogFill(c) ==
  /\ pc[c] = "fill"
  /\ ring' = [ring EXCEPT ![head] = entry[c]]
  /\ Goto(c, "advance")
  /\ UNCHANGED <<head, count, lock, entry, snapshot, total, seen>>

LogAdvance(c) ==
  /\ pc[c] = "advance"
  /\ head' = NextHead(head)
  /\ count' = NextCount(count)
  /\ Goto(c, "logUnlock")
  /\ UNCHANGED <<ring, lock, entry, snapshot, total, seen>>

LogUnlock(c) ==
  /\ pc[c] = "logUnlock"
  /\ lock' = {}
  /\ entry' = [entry EXCEPT ![c] = Blank]
  /\ Goto(c, "idle")
  /\ UNCHANGED <<ring, head, count, snapshot, total, seen>>

-----------------------------------------------------------------------------
(* ctx_monitor_proc_show() and smmu_guard_proc_show().                     *)

ShowBegin(c) ==
  /\ pc[c] = "idle"
  /\ Goto(c, "showSpin")
  /\ UNCHANGED <<ring, head, count, lock, entry, snapshot, total, seen>>

ShowLock(c) ==
  /\ pc[c] = "showSpin" /\ lock = {}
  /\ lock' = {c}
  /\ total' = [total EXCEPT ![c] = count]
  /\ seen' = [seen EXCEPT ![c] = Contents(ring, head, count)]
  /\ Goto(c, "copy")
  /\ UNCHANGED <<ring, head, count, entry, snapshot>>

(* One turn of the loop that copies the ring.                              *)
ShowCopy(c) ==
  /\ pc[c] = "copy" /\ Len(snapshot[c]) < total[c]
  /\ snapshot' = [snapshot EXCEPT
       ![c] = Append(@, ring[SlotOf(head, count, Len(snapshot[c]))])]
  /\ UNCHANGED <<ring, head, count, lock, pc, entry, total, seen>>

ShowUnlock(c) ==
  /\ pc[c] = "copy" /\ Len(snapshot[c]) = total[c]
  /\ lock' = {}
  /\ Goto(c, "print")
  /\ UNCHANGED <<ring, head, count, entry, snapshot, total, seen>>

ShowPrint(c) ==
  /\ pc[c] = "print"
  /\ snapshot' = [snapshot EXCEPT ![c] = <<>>]
  /\ total' = [total EXCEPT ![c] = 0]
  /\ seen' = [seen EXCEPT ![c] = <<>>]
  /\ Goto(c, "idle")
  /\ UNCHANGED <<ring, head, count, lock, entry>>

Step(c) ==
  \/ LogLock(c) \/ LogFill(c) \/ LogAdvance(c) \/ LogUnlock(c)
  \/ ShowLock(c) \/ ShowCopy(c) \/ ShowUnlock(c) \/ ShowPrint(c)

-----------------------------------------------------------------------------
(* Properties.                                                             *)

TypeOK ==
  /\ ring \in [Slots -> Entries \cup {Blank}]
  /\ head \in Slots /\ count \in 0 .. Capacity
  /\ lock \in SUBSET Contexts
  /\ pc \in [Contexts -> {"idle", "logSpin", "fill", "advance", "logUnlock",
                          "showSpin", "copy", "print"}]
  /\ entry \in [Contexts -> Entries \cup {Blank}]
  /\ snapshot \in [Contexts -> Seq(Entries \cup {Blank})]
  /\ total \in [Contexts -> 0 .. Capacity]
  /\ seen \in [Contexts -> Seq(Entries \cup {Blank})]

(* What a reader prints is the log as it was at one moment, every entry    *)
(* once and in order, whatever is logged meanwhile and also when the ring  *)
(* wraps; never a slot that was not written.                               *)
SnapshotAtomic ==
  \A c \in Contexts : pc[c] = "print" =>
    /\ snapshot[c] = seen[c]
    /\ \A i \in 1 .. Len(snapshot[c]) : snapshot[c][i] # Blank

(* The abstract log: an entry counts as logged once its slot is filled.    *)
Log ==
  IF \E c \in Contexts : pc[c] = "advance"
  THEN Contents(ring, NextHead(head), NextCount(count))
  ELSE Contents(ring, head, count)

Abstract == INSTANCE BoundedLog WITH log <- Log

=============================================================================
