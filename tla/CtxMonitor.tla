----------------------------- MODULE CtxMonitor -----------------------------
(***************************************************************************)
(* kernel/ctx_monitor/ctx_monitor.c: a die notifier that compares the      *)
(* program counter of a fault with the protected range and logs it; the    *)
(* address the instruction accessed is not looked at.  safety_mem sets the *)
(* range under log_lock; the notifier runs on the faulting CPUs and reads  *)
(* the range without the lock, start and end twice each.                   *)
(*                                                                         *)
(* The two stores and the loads are plain C accesses that race: those of   *)
(* different globals reach memory in any order, and a second read of the   *)
(* same global may be answered from the register of the first one.  The    *)
(* log is the bounded log of BoundedLog, which LogRing implements.         *)
(***************************************************************************)
EXTENDS Integers, Sequences

CONSTANTS
  Cpus,       \* where faults happen
  Addresses,  \* where faulting instructions are, and what they access
  Pages,      \* the <<start, end>> of the pages safety_mem may allocate
  Capacity,   \* DEMO_LOG_CAPACITY
  MaxFaults   \* bound: faults in one behaviour

NoRange == <<0, 0>>
Ranges == Pages \cup {NoRange}

ASSUME CtxMonitorAssumption ==
  /\ Addresses \subseteq Nat \ {0}
  /\ Pages \subseteq (Nat \ {0}) \X (Nat \ {0})
  /\ \A p \in Pages : p[1] < p[2]
  /\ Capacity \in Nat \ {0}
  /\ MaxFaults \in Nat

VARIABLES
  module,     \* ctx_monitor.ko: "unloaded", "hooked" (notifier registered,
              \* no proc file yet), "live", "leaving" (proc file removed)
  user,       \* safety_mem.ko is loaded and pins this module
  page,       \* the page safety_mem has, or had when it was last loaded
  start, end, \* protected_range_start, protected_range_end
  target,     \* the range a running ctx_monitor_set_protected_range() stores
  left,       \* the stores it still has to make
  locked,     \* log_lock is held
  log,        \* the fault log, oldest entry first
  pc,         \* where each CPU is in ctx_die_notifier_cb()
  fault,      \* its local fault_addr: the program counter of the fault
  loads,      \* its loads so far: [name -> value]
  faults,     \* history: faults so far
  access,     \* history: the address whose access faulted
  inForce,    \* history: the range of the last completed update
  during      \* history: the complete ranges, old and new, that a CPU's
              \* notifier could have seen

rangeVars == <<start, end, target, left>>
cpuVars == <<pc, fault, loads, faults>>
history == <<access, inForce, during>>
vars == <<module, user, page, rangeVars, locked, log, cpuVars, history>>

Log == INSTANCE BoundedLog WITH Entries <- Addresses

(* The reads of the condition, in the order of the source.                 *)
Reads == {"start1", "end1", "start2", "end2"}
Global(r) == IF r \in {"start1", "start2"} THEN start ELSE end
FirstOf(r) == IF r = "start2" THEN "start1" ELSE "end1"

(* A slip for mutation: the end of the range is taken as inclusive.        *)
KeepsEnd(f, s1, e1, s2, e2) ==
  s1 # 0 /\ e1 # 0 => s2 <= f /\ f <= e2

(* The condition itself, for the values its four reads returned.           *)
Keeps(f, s1, e1, s2, e2) ==
  s1 # 0 /\ e1 # 0 => s2 <= f /\ f < e2

NoFault == 0
NoLoads == [r \in {} |-> 0]

Init ==
  /\ module = "unloaded" /\ user = FALSE /\ page = NoRange
  /\ start = 0 /\ end = 0
  /\ target = NoRange /\ left = {}
  /\ locked = FALSE
  /\ log = <<>>
  /\ pc = [c \in Cpus |-> "idle"]
  /\ fault = [c \in Cpus |-> NoFault]
  /\ loads = [c \in Cpus |-> NoLoads]
  /\ faults = 0
  /\ access = [c \in Cpus |-> NoFault]
  /\ inForce = NoRange
  /\ during = [c \in Cpus |-> {}]

-----------------------------------------------------------------------------
(* ctx_monitor_init() and ctx_monitor_exit().                              *)

(* register_die_notifier(); a newly loaded module has fresh data.          *)
Register ==
  /\ module = "unloaded"
  /\ module' = "hooked"
  /\ start' = 0 /\ end' = 0
  /\ log' = <<>>
  /\ inForce' = NoRange
  /\ UNCHANGED <<user, page, target, left, locked, cpuVars, access, during>>

CreateProc ==
  /\ module = "hooked"
  /\ module' = "live"
  /\ UNCHANGED <<user, page, rangeVars, locked, log, cpuVars, history>>

(* unregister_die_notifier() waits for notifiers that are running.         *)
Unregister ==
  /\ \A c \in Cpus : pc[c] = "idle"
  /\ module' = "unloaded"
  /\ UNCHANGED <<user, page, rangeVars, locked, log, cpuVars, history>>

CreateProcFails == module = "hooked" /\ Unregister

RemoveProc ==
  /\ module = "live" /\ ~user
  /\ module' = "leaving"
  /\ UNCHANGED <<user, page, rangeVars, locked, log, cpuVars, history>>

ExitUnregister == module = "leaving" /\ Unregister

-----------------------------------------------------------------------------
(* ctx_monitor_set_protected_range(), called by safety_mem: its init gives *)
(* the page, set_protection() the page or (0, 0), its exit nothing.        *)

(* A slip for mutation: safety_mem's init does not give its page.          *)
SetRangeLockLater(r) ==
  /\ module = "live" /\ left = {} /\ ~locked
  /\ IF user THEN r \in {page, NoRange} /\ locked' = TRUE /\ target' = r /\ left' = {"start", "end"}
     ELSE r \in Pages /\ UNCHANGED <<locked, target, left>>
  /\ user' = TRUE
  /\ page' = IF user THEN page ELSE r
  /\ UNCHANGED <<module, start, end, log, cpuVars, history>>

SetRangeLock(r) ==
  /\ module = "live" /\ left = {} /\ ~locked
  /\ IF user THEN r \in {page, NoRange} ELSE r \in Pages
  /\ user' = TRUE
  /\ page' = IF user THEN page ELSE r
  /\ locked' = TRUE
  /\ target' = r
  /\ left' = {"start", "end"}
  /\ during' = [c \in Cpus |-> during[c] \cup (IF pc[c] = "test" THEN {r} ELSE {})]
  /\ UNCHANGED <<module, start, end, log, cpuVars, access, inForce>>

StoreStart ==
  /\ "start" \in left
  /\ start' = target[1]
  /\ left' = left \ {"start"}
  /\ UNCHANGED <<module, user, page, end, target, locked, log, cpuVars, history>>

StoreEnd ==
  /\ "end" \in left
  /\ end' = target[2]
  /\ left' = left \ {"end"}
  /\ UNCHANGED <<module, user, page, start, target, locked, log, cpuVars, history>>

SetRangeUnlock ==
  /\ locked /\ left = {}
  /\ locked' = FALSE
  /\ inForce' = target
  /\ UNCHANGED <<module, user, page, rangeVars, log, cpuVars, access, during>>

(* rmmod safety_mem, or its failed init, leaves the range as it is.        *)
SafetyMemGone ==
  /\ user /\ ~locked
  /\ user' = FALSE
  /\ UNCHANGED <<module, page, rangeVars, locked, log, cpuVars, history>>

-----------------------------------------------------------------------------
(* ctx_die_notifier_cb().                                                  *)

(* An instruction at f faults on an access to a.  Only a fault that        *)
(* reports registers gets past the first test; of these the program        *)
(* counter becomes fault_addr.                                             *)
Die(c, f, a) ==
  /\ module # "unloaded"
  /\ pc[c] = "idle" /\ faults < MaxFaults
  /\ faults' = faults + 1
  /\ pc' = [pc EXCEPT ![c] = "test"]
  /\ fault' = [fault EXCEPT ![c] = f]
  /\ access' = [access EXCEPT ![c] = a]
  /\ during' = [during EXCEPT
       ![c] = {inForce} \cup (IF locked THEN {target} ELSE {})]
  /\ UNCHANGED <<module, user, page, rangeVars, locked, log, loads, inForce>>

(* One read of the condition.  Reads of different globals happen in any    *)
(* order; the second read of a global follows its first and returns what   *)
(* is in memory or in the register of the first.                           *)
Load(c, r) ==
  /\ pc[c] = "test" /\ r \notin DOMAIN loads[c]
  /\ LET again == r \in {"start2", "end2"} IN
     /\ again => FirstOf(r) \in DOMAIN loads[c]
     /\ \E v \in {Global(r)} \cup (IF again THEN {loads[c][FirstOf(r)]} ELSE {}) :
          loads' = [loads EXCEPT ![c] =
                      [x \in DOMAIN @ \cup {r} |-> IF x = r THEN v ELSE @[x]]]
  /\ UNCHANGED <<module, user, page, rangeVars, locked, log, pc, fault, faults, history>>

(* The four reads are done: return, or call log_fault_event().             *)
Decide(c) ==
  /\ pc[c] = "test" /\ DOMAIN loads[c] = Reads
  /\ pc' = [pc EXCEPT ![c] =
       IF Keeps(fault[c], loads[c]["start1"], loads[c]["end1"],
                loads[c]["start2"], loads[c]["end2"])
       THEN "log" ELSE "dropped"]
  /\ UNCHANGED <<module, user, page, rangeVars, locked, log, fault, loads, faults, history>>

(* log_fault_event() under log_lock.                                       *)
LogFault(c) ==
  /\ pc[c] = "log" /\ ~locked
  /\ log' = Log!Push(log, fault[c])
  /\ pc' = [pc EXCEPT ![c] = "logged"]
  /\ UNCHANGED <<module, user, page, rangeVars, locked, fault, loads, faults, history>>

Return(c) ==
  /\ pc[c] \in {"logged", "dropped"}
  /\ pc' = [pc EXCEPT ![c] = "idle"]
  /\ fault' = [fault EXCEPT ![c] = NoFault]
  /\ access' = [access EXCEPT ![c] = NoFault]
  /\ loads' = [loads EXCEPT ![c] = NoLoads]
  /\ during' = [during EXCEPT ![c] = {}]
  /\ UNCHANGED <<module, user, page, rangeVars, locked, log, faults, inForce>>

-----------------------------------------------------------------------------

Next ==
  \/ Register \/ CreateProc \/ CreateProcFails \/ RemoveProc \/ ExitUnregister
  \/ \E r \in Ranges : SetRangeLock(r)
  \/ StoreStart \/ StoreEnd \/ SetRangeUnlock \/ SafetyMemGone
  \/ \E c \in Cpus :
       \/ \E f, a \in Addresses : Die(c, f, a)
       \/ \E r \in Reads : Load(c, r)
       \/ Decide(c) \/ LogFault(c) \/ Return(c)

Spec == Init /\ [][Next]_vars

-----------------------------------------------------------------------------
(* Properties.                                                             *)

TypeOK ==
  /\ module \in {"unloaded", "hooked", "live", "leaving"}
  /\ user \in BOOLEAN /\ locked \in BOOLEAN
  /\ start \in Nat /\ end \in Nat
  /\ page \in Ranges /\ target \in Ranges /\ left \subseteq {"start", "end"}
  /\ log \in Seq(Addresses) /\ Len(log) <= Capacity
  /\ pc \in [Cpus -> {"idle", "test", "log", "logged", "dropped"}]
  /\ fault \in [Cpus -> Addresses \cup {NoFault}]
  /\ access \in [Cpus -> Addresses \cup {NoFault}]
  /\ \A c \in Cpus : DOMAIN loads[c] \subseteq Reads

(* A range filters an address: it is (0, 0), or the address is in it.      *)
Within(f, r) == f \in r[1] .. r[2] - 1
KeptBy(f, r) == r = NoRange \/ Within(f, r)

Done(c) == pc[c] \in {"logged", "dropped"}

(* The filter of the code is one on program counters, whatever the access  *)
(* was: whenever the range did not change while the notifier ran, a fault  *)
(* is logged exactly if its instruction lies in that range, although both  *)
(* bounds are read without the lock, in any order and up to twice.         *)
CounterFilterExact ==
  \A c \in Cpus : Done(c) =>
    \A r \in during[c] : during[c] = {r} =>
      (pc[c] = "logged" <=> KeptBy(fault[c], r))

(* The range of a page that safety_mem gave back (its exit and its failing *)
(* init leave it registered) never outlives the next load: as soon as      *)
(* safety_mem is up and no update runs, the range is that of the page it   *)
(* now has, or (0, 0).                                                     *)
RangeFollowsPage ==
  user /\ ~locked => <<start, end>> \in {page, NoRange}

(* The filter acts on one range: a fault is dropped or logged as one of    *)
(* the ranges in force during the notifier says.  The comment in           *)
(* ctx_monitor_set_protected_range() ("protects state shared with          *)
(* exception context") promises as much.                                   *)
FilterSeesOneRange ==
  \A c \in Cpus : Done(c) =>
    \E r \in during[c] : pc[c] = "logged" <=> KeptBy(fault[c], r)

(* "Observe kernel exceptions and log faults in the protected range", says *)
(* the comment over ctx_die_notifier_cb(): a fault on an access to the     *)
(* page is in the log, if the page was registered all the time.            *)
FaultsInRangeLogged ==
  \A c \in Cpus : Done(c) =>
    \A r \in during[c] : during[c] = {r} /\ Within(access[c], r) => pc[c] = "logged"

=============================================================================
