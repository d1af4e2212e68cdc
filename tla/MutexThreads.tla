---------------------------- MODULE MutexThreads ----------------------------
(***************************************************************************)
(* kernel/mutex_threads: Thread A (reads the safety word twice while it    *)
(* holds safety_mutex), Thread B (restores the sentinel under the mutex)   *)
(* and the rogue Thread C (writes the word, or clears the mutex's owner    *)
(* word, without taking the mutex), with the insmod/rmmod paths that start *)
(* and stop them.  Writers are processes inside safety_mem_set_protection, *)
(* the other users of the mutex.                                           *)
(***************************************************************************)
EXTENDS Naturals, KernelMutex

CONSTANTS
  Writers,     \* processes that call safety_mem_set_protection()
  AttackModes, \* the values the operator may give attack_mode of rogue_thread
  HarnessOrder,\* rogue_thread is loaded after, and unloaded before, the
               \* threads, as the harness does (nothing in the kernel does)
  Sentinel,    \* SAFETY_SENTINEL
  Corrupt,     \* CORRUPT_SENTINEL
  CounterMod   \* the u32 counters wrap at CounterMod (2^32 in the code)

A == "A"
B == "B"
C == "C"
Lockers == {A, B} \cup Writers
Threads == {A, B, C}

ASSUME MutexThreadsAssumption ==
  /\ Writers \cap (Threads \cup {NoTask}) = {}
  /\ NoTask \notin Threads
  /\ AttackModes # {} /\ AttackModes \subseteq {"write", "metadata"}
  /\ HarnessOrder \in BOOLEAN
  /\ Sentinel # Corrupt
  /\ CounterMod \in Nat \ {0}

VARIABLES
  m,          \* safety_mutex
  awake,      \* has a queued waiter been woken?
  pc,         \* where each thread and writer is
  mem,        \* the safety word
  initial,    \* local initial_val of Thread A
  contention, \* contention_counter
  violation,  \* violation_counter
  stop,       \* kthread_stop() has been called on the thread
  threadsMod, \* progress of mutex_threads_init()/_exit()
  rogueMod,   \* progress of rogue_thread_init()/_exit()
  attackMode, \* attack_mode, the module parameter of every insmod rogue_thread
  stored,     \* history: Thread C stored since Thread A's first read
  cleared     \* history: Thread C has cleared the owner word since the
              \* mutex was last without a user

modVars == <<stop, threadsMod, rogueMod, attackMode>>
dataVars == <<mem, initial, contention, violation, stored>>
vars == <<m, awake, pc, dataVars, modVars, cleared>>

Tick(n) == (n + 1) % CounterMod

(* The first statement after mutex_lock() in each user.                    *)
Entry(t) == IF t = A THEN "read" ELSE IF t = B THEN "write" ELSE "cs"
Inside == {"read", "hold", "check", "write", "cs", "unlock"}

(* No module is loaded; an earlier attack may have left its value in the   *)
(* page.                                                                   *)
Init ==
  /\ m = FreeMutex
  /\ awake = [t \in Lockers |-> FALSE]
  /\ pc = [t \in Lockers \cup {C} |-> "off"]
  /\ mem \in {Sentinel, Corrupt} /\ initial = Sentinel
  /\ contention = 0 /\ violation = 0
  /\ stop = [t \in Threads |-> FALSE]
  /\ threadsMod = "unloaded" /\ rogueMod = "unloaded" /\ attackMode \in AttackModes
  /\ stored = FALSE /\ cleared = FALSE

Goto(t, l) == pc' = [pc EXCEPT ![t] = l]

-----------------------------------------------------------------------------
(* The mutex as its users meet it.                                         *)

(* mutex_lock() without waiting.                                           *)
LockFast(t) ==
  /\ pc[t] = "lock"
  /\ CanAcquire(m, t)
  /\ m' = Acquire(m, t)
  /\ Goto(t, Entry(t))
  /\ UNCHANGED <<awake, dataVars, modVars, cleared>>

(* mutex_lock() joins the queue and sleeps.                                *)
LockSleep(t) ==
  /\ pc[t] = "lock"
  /\ ~CanAcquire(m, t)
  /\ m' = Enqueue(m, t)
  /\ awake' = [awake EXCEPT ![t] = FALSE]
  /\ Goto(t, "wait")
  /\ UNCHANGED <<dataVars, modVars, cleared>>

(* A waiter that was woken gets the mutex ...                              *)
WakeAcquire(t) ==
  /\ pc[t] = "wait" /\ awake[t]
  /\ CanAcquire(m, t)
  /\ m' = AcquireQueued(m, t)
  /\ awake' = [awake EXCEPT ![t] = FALSE]
  /\ Goto(t, Entry(t))
  /\ UNCHANGED <<dataVars, modVars, cleared>>

(* ... or finds it taken and sleeps again.                                 *)
WakeRetry(t) ==
  /\ pc[t] = "wait" /\ awake[t]
  /\ ~CanAcquire(m, t)
  /\ m' = RetryFailed(m, t)
  /\ awake' = [awake EXCEPT ![t] = FALSE]
  /\ UNCHANGED <<pc, dataVars, modVars, cleared>>

(* A slip for mutation: the owner word is stored instead of an unlock.     *)
UnlockByStore(t) ==
  /\ pc[t] = "unlock"
  /\ m' = ClearOwnerWord(m)
  /\ Goto(t, IF t \in Writers THEN "off" ELSE "nap")
  /\ cleared' = (cleared /\ \E u \in Lockers \ {t} : pc[u] \in Inside)
  /\ UNCHANGED <<awake, dataVars, modVars>>

Unlock(t) ==
  /\ pc[t] = "unlock"
  /\ m' = Release(m)
  /\ awake' = [u \in Lockers |-> awake[u] \/ u \in Woken(m)]
  /\ Goto(t, IF t \in Writers THEN "off" ELSE "nap")
  /\ cleared' = (cleared /\ \E u \in Lockers \ {t} : pc[u] \in Inside)
  /\ UNCHANGED <<dataVars, modVars>>

MutexStep(t) ==
  LockFast(t) \/ LockSleep(t) \/ WakeAcquire(t) \/ WakeRetry(t) \/ Unlock(t)

-----------------------------------------------------------------------------
(* Thread bodies.                                                          *)

(* while (!kthread_should_stop()): the thread function returns.            *)
ThreadExit(t) ==
  /\ pc[t] = "top" /\ stop[t]
  /\ Goto(t, "exited")
  /\ UNCHANGED <<m, awake, dataVars, modVars, cleared>>

(* msleep_interruptible(period) ends, by its timeout or by kthread_stop(). *)
NapEnds(t) ==
  /\ pc[t] = "nap"
  /\ Goto(t, "top")
  /\ UNCHANGED <<m, awake, dataVars, modVars, cleared>>

(* A slip for mutation: the result of mutex_trylock() is ignored.          *)
ATrylockIgnored ==
  /\ pc[A] = "top" /\ ~stop[A]
  /\ m' = IF CanAcquire(m, A) THEN Acquire(m, A) ELSE m
  /\ Goto(A, "read")
  /\ UNCHANGED <<awake, dataVars, modVars, cleared>>

(* mutex_trylock() in Thread A; a failure is counted before mutex_lock().  *)
ATrylock ==
  /\ pc[A] = "top" /\ ~stop[A]
  /\ \/ /\ CanAcquire(m, A)
        /\ m' = Acquire(m, A)
        /\ Goto(A, "read")
        /\ UNCHANGED contention
     \/ /\ ~CanAcquire(m, A)
        /\ contention' = Tick(contention)
        /\ Goto(A, "lock")
        /\ UNCHANGED m
  /\ UNCHANGED <<awake, mem, initial, violation, stored, modVars, cleared>>

ARead ==
  /\ pc[A] = "read"
  /\ initial' = mem
  /\ stored' = FALSE
  /\ Goto(A, "hold")
  /\ UNCHANGED <<m, awake, mem, contention, violation, modVars, cleared>>

(* msleep_interruptible(hold_duration_ms).                                 *)
AHold ==
  /\ pc[A] = "hold"
  /\ Goto(A, "check")
  /\ UNCHANGED <<m, awake, dataVars, modVars, cleared>>

(* A slip for mutation: Thread A goes on without mutex_unlock().           *)
ACheckNoUnlock ==
  /\ pc[A] = "check"
  /\ violation' = IF mem # initial THEN Tick(violation) ELSE violation
  /\ initial' = Sentinel
  /\ Goto(A, "nap")
  /\ UNCHANGED <<m, awake, mem, contention, stored, modVars, cleared>>

ACheck ==
  /\ pc[A] = "check"
  /\ violation' = IF mem # initial THEN Tick(violation) ELSE violation
  /\ initial' = Sentinel
  /\ Goto(A, "unlock")
  /\ UNCHANGED <<m, awake, mem, contention, stored, modVars, cleared>>

(* A slip for mutation: Thread B writes without the mutex.                 *)
BTopUnlocked ==
  /\ pc[B] = "top" /\ ~stop[B]
  /\ Goto(B, "write")
  /\ UNCHANGED <<m, awake, dataVars, modVars, cleared>>

BTop ==
  /\ pc[B] = "top" /\ ~stop[B]
  /\ Goto(B, "lock")
  /\ UNCHANGED <<m, awake, dataVars, modVars, cleared>>

BWrite ==
  /\ pc[B] = "write"
  /\ mem' = Sentinel
  /\ Goto(B, "unlock")
  /\ UNCHANGED <<m, awake, initial, contention, violation, stored, modVars, cleared>>

(* attack_mode 0: WRITE_ONCE() without the mutex.                          *)
CStore ==
  /\ pc[C] = "top" /\ ~stop[C] /\ attackMode = "write"
  /\ mem' = Corrupt
  /\ stored' = TRUE
  /\ Goto(C, "nap")
  /\ UNCHANGED <<m, awake, initial, contention, violation, modVars, cleared>>

(* attack_mode 1: mutex_is_locked(), and then, later, the owner word.      *)
CSample ==
  /\ pc[C] = "top" /\ ~stop[C] /\ attackMode = "metadata"
  /\ Goto(C, IF IsLocked(m) THEN "clear" ELSE "nap")
  /\ UNCHANGED <<m, awake, dataVars, modVars, cleared>>

(* A slip for mutation: Thread C repeats the store without looking at      *)
(* kthread_should_stop().                                                  *)
CClearForever ==
  /\ pc[C] = "clear"
  /\ m' = ClearOwnerWord(m)
  /\ cleared' = TRUE
  /\ UNCHANGED <<awake, pc, dataVars, modVars>>

CClear ==
  /\ pc[C] = "clear"
  /\ m' = ClearOwnerWord(m)
  /\ cleared' = TRUE
  /\ Goto(C, "nap")
  /\ UNCHANGED <<awake, dataVars, modVars>>

(* A process enters, and works inside, safety_mem_set_protection().        *)
WriterBegin(w) ==
  /\ pc[w] = "off"
  /\ Goto(w, "lock")
  /\ UNCHANGED <<m, awake, dataVars, modVars, cleared>>

WriterWork(w) ==
  /\ pc[w] = "cs"
  /\ Goto(w, "unlock")
  /\ UNCHANGED <<m, awake, dataVars, modVars, cleared>>

AStep == ATrylock \/ ARead \/ AHold \/ ACheck
BStep == BTop \/ BWrite
CStep == CStore \/ CSample \/ CClear

-----------------------------------------------------------------------------
(* insmod and rmmod.                                                       *)

(* kthread_run(): a new task starts its thread function.                   *)
Start(t) ==
  /\ Goto(t, "top")
  /\ stop' = [stop EXCEPT ![t] = FALSE]

(* kthread_stop(), first half: request and wake_up_process().              *)
RequestStop(t) ==
  /\ stop' = [stop EXCEPT ![t] = TRUE]
  /\ awake' = IF t \in Lockers /\ pc[t] = "wait"
              THEN [awake EXCEPT ![t] = TRUE] ELSE awake

(* kthread_stop(), second half: wait until the thread function returned.   *)
Join(t) ==
  /\ pc[t] = "exited"
  /\ Goto(t, "off")

StartA ==
  /\ threadsMod = "unloaded"
  /\ Start(A)
  /\ threadsMod' = "startB"
  /\ contention' = 0 /\ violation' = 0
  /\ UNCHANGED <<m, awake, mem, initial, stored, rogueMod, attackMode, cleared>>

StartB ==
  /\ threadsMod = "startB"
  /\ Start(B)
  /\ threadsMod' = "live"
  /\ UNCHANGED <<m, awake, dataVars, rogueMod, attackMode, cleared>>

(* kthread_run() for Thread B fails: stop Thread A and fail the insmod.    *)
StartBFails ==
  /\ threadsMod = "startB"
  /\ RequestStop(A)
  /\ threadsMod' = "abort"
  /\ UNCHANGED <<m, pc, dataVars, rogueMod, attackMode, cleared>>

AbortJoin ==
  /\ threadsMod = "abort"
  /\ Join(A)
  /\ threadsMod' = "unloaded"
  /\ UNCHANGED <<m, awake, dataVars, stop, rogueMod, attackMode, cleared>>

StopA ==
  /\ threadsMod = "live"
  /\ HarnessOrder => rogueMod = "unloaded"
  /\ RequestStop(A)
  /\ threadsMod' = "joinA"
  /\ UNCHANGED <<m, pc, dataVars, rogueMod, attackMode, cleared>>

JoinAStopB ==
  /\ threadsMod = "joinA"
  /\ Join(A)
  /\ RequestStop(B)
  /\ threadsMod' = "joinB"
  /\ UNCHANGED <<m, dataVars, rogueMod, attackMode, cleared>>

JoinB ==
  /\ threadsMod = "joinB"
  /\ Join(B)
  /\ threadsMod' = "unloaded"
  /\ UNCHANGED <<m, awake, dataVars, stop, rogueMod, attackMode, cleared>>

StartC ==
  /\ rogueMod = "unloaded"
  /\ HarnessOrder => threadsMod = "live"
  /\ Start(C)
  /\ rogueMod' = "live"
  /\ UNCHANGED <<m, awake, dataVars, threadsMod, attackMode, cleared>>

StopC ==
  /\ rogueMod = "live"
  /\ RequestStop(C)
  /\ rogueMod' = "joinC"
  /\ UNCHANGED <<m, pc, dataVars, threadsMod, attackMode, cleared>>

JoinC ==
  /\ rogueMod = "joinC"
  /\ Join(C)
  /\ rogueMod' = "unloaded"
  /\ UNCHANGED <<m, awake, dataVars, stop, threadsMod, attackMode, cleared>>

(* The operator decides when a module is loaded and unloaded; once begun,  *)
(* init and exit go on.                                                    *)
OperatorStep == StartA \/ StopA \/ StartC \/ StopC
ThreadsModStep == StartB \/ StartBFails \/ AbortJoin \/ JoinAStopB \/ JoinB

ThreadStep(t) ==
  \/ t \in Threads /\ (ThreadExit(t) \/ NapEnds(t))
  \/ t \in Lockers /\ MutexStep(t)
  \/ t = A /\ AStep
  \/ t = B /\ BStep
  \/ t = C /\ CStep
  \/ t \in Writers /\ WriterWork(t)

Next ==
  \/ \E t \in Lockers \cup {C} : ThreadStep(t)
  \/ \E w \in Writers : WriterBegin(w)
  \/ OperatorStep
  \/ ThreadsModStep
  \/ JoinC

Spec == Init /\ [][Next]_vars

(* Every runnable thread is scheduled, sleeps end, and a started insmod or *)
(* rmmod runs on.  Nothing makes the operator or a writer begin.           *)
Fairness ==
  /\ \A t \in Lockers \cup {C} : WF_vars(ThreadStep(t))
  /\ WF_vars(ThreadsModStep) /\ WF_vars(JoinC)

FairSpec == Spec /\ Fairness

-----------------------------------------------------------------------------
(* Properties.                                                             *)

TypeOK ==
  /\ m \in [task : Lockers \cup {NoTask}, waiters : BOOLEAN,
            handoff : BOOLEAN, pickup : BOOLEAN, queue : Seq(Lockers)]
  /\ awake \in [Lockers -> BOOLEAN]
  /\ pc \in [Lockers \cup {C} ->
               Inside \cup {"off", "top", "lock", "wait", "nap", "exited", "clear"}]
  /\ mem \in {Sentinel, Corrupt} /\ initial \in {Sentinel, Corrupt}
  /\ contention \in 0 .. CounterMod - 1 /\ violation \in 0 .. CounterMod - 1
  /\ stop \in [Threads -> BOOLEAN]
  /\ threadsMod \in {"unloaded", "startB", "live", "abort", "joinA", "joinB"}
  /\ rogueMod \in {"unloaded", "live", "joinC"}
  /\ attackMode \in {"write", "metadata"}
  /\ stored \in BOOLEAN /\ cleared \in BOOLEAN

Overlap == \E t, u \in Lockers : t # u /\ pc[t] \in Inside /\ pc[u] \in Inside

(* Two users of safety_mutex are inside it at once only if the rogue       *)
(* thread overwrote the owner word since the mutex was last without a      *)
(* user: stores into the safety page never break the exclusion, and the    *)
(* damage of one metadata attack (a foreign unlock by the robbed owner     *)
(* included) ends with the users it met.                                   *)
OverlapNeedsMetadataAttack == Overlap => cleared

(* "VIOLATION DETECTED: data changed WHILE MUTEX HELD" is never a false    *)
(* alarm, even though Thread B stores into the page as well: Thread A      *)
(* counts a violation only if Thread C stored into the page after A's      *)
(* first read, or has cleared the owner word under A's feet.               *)
ViolationSound ==
  [][violation' = Tick(violation) /\ pc[A] = "check" => stored \/ cleared]_violation

(* Nobody waits, or somebody inside the mutex will wake the first waiter,  *)
(* or a waiter is already awake.                                           *)
WaiterMinded ==
  m.queue # <<>> =>
    \/ m.waiters /\ \E t \in Lockers : pc[t] \in Inside
    \/ \E t \in Lockers : pc[t] = "wait" /\ awake[t]

(* While rogue_thread only stores to the page and leaves the owner word    *)
(* alone, a queued waiter is never forgotten.                              *)
NoLostWakeup == attackMode = "write" => WaiterMinded

(* Thread A, once it waits for a mutex whose owner word is left alone,     *)
(* gets it, although Thread B and the writers come back at once.           *)
ThreadAProgress ==
  attackMode = "write" /\ pc[A] \in {"lock", "wait"} ~> pc[A] = "read"

(* rmmod mutex_threads, and an insmod that fails half way, complete        *)
(* although Threads A and B may be asleep in mutex_lock() or in a nap, if  *)
(* the owner word is left alone.                                           *)
ThreadsStopUnlessRobbed ==
  attackMode = "write" /\ threadsMod \in {"joinA", "joinB", "abort"}
    ~> threadsMod = "unloaded"

(* "kthread_stop() requests termination, wakes a sleeping thread, and      *)
(* waits until its thread function returns": rmmod mutex_threads, and an   *)
(* insmod that fails half way, complete.                                   *)
ThreadsStop == threadsMod \in {"joinA", "joinB", "abort"} ~> threadsMod = "unloaded"

(* The rogue thread remains stoppable during teardown: rmmod rogue_thread  *)
(* completes whatever state it has left the mutex in.                      *)
RogueStops == rogueMod = "joinC" ~> rogueMod = "unloaded"

=============================================================================
