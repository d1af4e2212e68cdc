---------------------------- MODULE KernelMutex ----------------------------
(***************************************************************************)
(* The Linux 6.6 sleeping mutex (struct mutex, CONFIG_DEBUG_MUTEXES=n) as  *)
(* the modules under kernel/ use it.  It is not part of this repository;   *)
(* what matters here is that ownership, the flags and the waiters live in  *)
(* ordinary memory: rogue_thread.c overwrites the owner word.              *)
(*                                                                         *)
(* A mutex is a record: task (owner, NoTask if none) and the three flag    *)
(* bits of the owner word, and the queue of waiters.  The operators give   *)
(* the mutex after each operation; who is asleep is the users' state.      *)
(***************************************************************************)
EXTENDS Naturals, Sequences, SequencesExt

CONSTANT NoTask

FreeMutex == [task |-> NoTask, waiters |-> FALSE, handoff |-> FALSE,
              pickup |-> FALSE, queue |-> <<>>]

(* mutex_is_locked(): some task bits are set.                              *)
IsLocked(m) == m.task # NoTask

(* __mutex_trylock(): take a mutex nobody owns, or pick up one that was    *)
(* handed to this task.                                                    *)
CanAcquire(m, t) == m.task = NoTask \/ (m.pickup /\ m.task = t)

Acquire(m, t) ==
  [m EXCEPT !.task = t, !.pickup = m.task = NoTask /\ @]

(* __mutex_add_waiter(): the first waiter sets the WAITERS bit.            *)
Enqueue(m, t) ==
  [m EXCEPT !.queue = Append(@, t), !.waiters = @ \/ m.queue = <<>>]

(* __mutex_remove_waiter() after a waiter got the mutex: the last one      *)
(* clears the flags.                                                       *)
AcquireQueued(m, t) ==
  LET got  == Acquire(m, t)
      rest == RemoveAt(m.queue, CHOOSE i \in DOMAIN m.queue : m.queue[i] = t)
  IN  IF rest = <<>> THEN [FreeMutex EXCEPT !.task = t]
      ELSE [got EXCEPT !.queue = rest]

IsFirst(m, t) == m.queue # <<>> /\ Head(m.queue) = t

(* A woken waiter that fails again asks for a handoff if it is the first.  *)
RetryFailed(m, t) == [m EXCEPT !.handoff = @ \/ IsFirst(m, t)]

(* mutex_unlock().  The slow path does not compare the owner with the      *)
(* caller: it clears whatever task is there, or gives the mutex to the     *)
(* first waiter if a handoff was asked for.                                *)
Release(m) ==
  IF m.handoff
  THEN [m EXCEPT !.task = IF m.queue = <<>> THEN NoTask ELSE Head(m.queue),
                 !.handoff = FALSE, !.pickup = m.queue # <<>>]
  ELSE [m EXCEPT !.task = NoTask]

(* The task mutex_unlock() wakes.                                          *)
Woken(m) == IF (m.handoff \/ m.waiters) /\ m.queue # <<>>
            THEN {Head(m.queue)} ELSE {}

(* atomic_long_set(&mutex.owner, 0): the owner and every flag are gone,    *)
(* the queue is not.                                                       *)
ClearOwnerWord(m) == [FreeMutex EXCEPT !.queue = m.queue]

=============================================================================
