-------------------------- MODULE CtxMonitorProofs --------------------------
(***************************************************************************)
(* Proofs about CtxMonitor, for any CPUs, addresses, pages, capacity and   *)
(* number of faults, with the racing accesses of the model.                *)
(***************************************************************************)
EXTENDS CtxMonitor, TLAPS

TypeInv ==
  /\ TypeOK
  /\ faults \in Nat
  /\ inForce \in Ranges
  /\ during \in [Cpus -> SUBSET Ranges]
  /\ DOMAIN loads = Cpus
  /\ \A c \in Cpus : pc[c] # "idle" => fault[c] \in Addresses

(* safety_mem sets the range only while it pins the live module, and every *)
(* update holds log_lock until both of its stores are done.                *)
UpdateInv ==
  /\ user => module = "live"
  /\ locked => user
  /\ left # {} => locked
  /\ user => (IF locked THEN target ELSE inForce) \in {page, NoRange}

(* A global holds the range of the last update, or of the running one once *)
(* that has stored it.                                                     *)
MemoryInv ==
  /\ start = (IF locked /\ "start" \notin left THEN target ELSE inForce)[1]
  /\ end   = (IF locked /\ "end"   \notin left THEN target ELSE inForce)[2]

(* A notifier that is still reading has everything in "during" that it     *)
(* could find in memory.                                                   *)
DuringInv ==
  \A c \in Cpus :
    /\ pc[c] = "idle" => DOMAIN loads[c] = {}
    /\ pc[c] = "test" => inForce \in during[c] /\ (locked => target \in during[c])

(* What it has read so far is the bound of one of these ranges.            *)
Bound(r, x) == IF x \in {"start1", "start2"} THEN r[1] ELSE r[2]

LoadsInv ==
  \A c \in Cpus : pc[c] = "test" =>
    \A x \in DOMAIN loads[c] : \E r \in during[c] : loads[c][x] = Bound(r, x)

(* Once decided, a fault that met one range only was decided by that one.  *)
DecidedInv ==
  \A c \in Cpus : pc[c] \in {"log", "logged", "dropped"} =>
    \A r \in during[c] : during[c] = {r} =>
      (pc[c] \in {"log", "logged"} <=> KeptBy(fault[c], r))

(* unregister_die_notifier() has waited for the notifiers: the data of the *)
(* next load of the module has no reader yet.                              *)
IdleInv == module = "unloaded" => \A c \in Cpus : pc[c] = "idle"

CMInv == UpdateInv /\ MemoryInv /\ DuringInv /\ LoadsInv /\ DecidedInv /\ IdleInv

-----------------------------------------------------------------------------
LEMMA RangeParts ==
  ASSUME NEW r \in Ranges
  PROVE  /\ r[1] \in Nat /\ r[2] \in Nat /\ r = <<r[1], r[2]>>
         /\ r = NoRange \/ (r[1] # 0 /\ r[2] # 0)
  BY CtxMonitorAssumption DEF Ranges, NoRange

(* For the bounds of one range, the condition is the filter.               *)
LEMMA KeepsIsKeptBy ==
  ASSUME NEW f \in Addresses, NEW r \in Ranges
  PROVE  Keeps(f, r[1], r[2], r[1], r[2]) <=> KeptBy(f, r)
<1>1. f \in Nat
  BY CtxMonitorAssumption
<1>2. CASE r = NoRange
  BY <1>2 DEF Keeps, KeptBy, NoRange
<1>3. CASE r # NoRange
  BY <1>1, <1>3, RangeParts DEF Keeps, KeptBy, Within
<1> QED BY <1>2, <1>3

(* Appending to the bounded log keeps its bound.                           *)
LEMMA PushBounded ==
  ASSUME NEW l \in Seq(Addresses), Len(l) <= Capacity, NEW f \in Addresses
  PROVE  Log!Push(l, f) \in Seq(Addresses) /\ Len(Log!Push(l, f)) <= Capacity
<1>1. CASE Len(l) < Capacity
  BY <1>1, CtxMonitorAssumption DEF Log!Push
<1>2. CASE ~(Len(l) < Capacity)
  <2>1. l # <<>> /\ Len(l) = Capacity
    BY <1>2, CtxMonitorAssumption
  <2>2. Tail(l) \in Seq(Addresses) /\ Len(Tail(l)) = Capacity - 1
    BY <2>1
  <2> QED BY <1>2, <2>2, CtxMonitorAssumption DEF Log!Push
<1> QED BY <1>1, <1>2

LEMMA InitTypeInv == Init => TypeInv
<1> SUFFICES ASSUME Init PROVE TypeInv
  OBVIOUS
<1>1. user \in BOOLEAN /\ locked \in BOOLEAN
  BY Zenon DEF Init
<1> QED BY <1>1, CtxMonitorAssumption DEF Init, TypeInv, TypeOK, Ranges, NoLoads, NoFault

LEMMA NextTypeInv == TypeInv /\ [Next]_vars => TypeInv'
<1> SUFFICES ASSUME TypeInv, [Next]_vars PROVE TypeInv'
  OBVIOUS
<1> USE CtxMonitorAssumption DEF TypeInv, TypeOK, rangeVars, cpuVars, history
<1>1. CASE Register BY <1>1 DEF Register, Ranges
<1>2. CASE CreateProc BY <1>2 DEF CreateProc
<1>3. CASE CreateProcFails \/ ExitUnregister
  BY <1>3 DEF CreateProcFails, ExitUnregister, Unregister
<1>4. CASE RemoveProc BY <1>4 DEF RemoveProc
<1>5. ASSUME NEW r \in Ranges, SetRangeLock(r) PROVE TypeInv'
  <2>1. user' \in BOOLEAN /\ locked' \in BOOLEAN
    BY <1>5, Zenon DEF SetRangeLock
  <2> QED BY <1>5, <2>1 DEF SetRangeLock
<1>6. CASE StoreStart BY <1>6, RangeParts DEF StoreStart
<1>7. CASE StoreEnd BY <1>7, RangeParts DEF StoreEnd
<1>8. CASE SetRangeUnlock
  <2>1. locked' \in BOOLEAN
    BY <1>8, Zenon DEF SetRangeUnlock
  <2> QED BY <1>8, <2>1 DEF SetRangeUnlock
<1>9. CASE SafetyMemGone
  <2>1. user' \in BOOLEAN
    BY <1>9, Zenon DEF SafetyMemGone
  <2> QED BY <1>9, <2>1 DEF SafetyMemGone
<1>10. ASSUME NEW c \in Cpus, NEW f \in Addresses, NEW a \in Addresses, Die(c, f, a) PROVE TypeInv'
  BY <1>10 DEF Die
<1>11. ASSUME NEW c \in Cpus, NEW r \in Reads, Load(c, r) PROVE TypeInv'
  BY <1>11 DEF Load
<1>12. ASSUME NEW c \in Cpus, Decide(c) PROVE TypeInv'
  BY <1>12 DEF Decide
<1>13. ASSUME NEW c \in Cpus, LogFault(c) PROVE TypeInv'
  BY <1>13, PushBounded DEF LogFault
<1>14. ASSUME NEW c \in Cpus, Return(c) PROVE TypeInv'
  BY <1>14 DEF Return, NoFault, NoLoads
<1>15. CASE UNCHANGED vars BY <1>15 DEF vars
<1> QED
  BY <1>1, <1>2, <1>3, <1>4, <1>5, <1>6, <1>7, <1>8, <1>9, <1>10, <1>11, <1>12, <1>13,
     <1>14, <1>15 DEF Next

-----------------------------------------------------------------------------
LEMMA InitCMInv == Init => CMInv
  BY DEF Init, CMInv, UpdateInv, MemoryInv, DuringInv, LoadsInv, DecidedInv,
         IdleInv, NoRange, NoLoads

(* The loading and unloading of the modules.                               *)
LEMMA ModuleStepInv ==
  ASSUME TypeInv, CMInv,
         \/ Register \/ CreateProc \/ CreateProcFails \/ RemoveProc \/ ExitUnregister
         \/ SafetyMemGone
  PROVE  CMInv'
<1> USE DEF TypeInv, TypeOK, CMInv, UpdateInv, MemoryInv, DuringInv, LoadsInv, DecidedInv,
        IdleInv, rangeVars, cpuVars, history
<1>1. CASE Register
  <2>1. ~locked /\ ~user /\ \A c \in Cpus : pc[c] = "idle"
    BY <1>1 DEF Register
  <2> QED BY <1>1, <2>1 DEF Register, NoRange
<1>2. CASE CreateProc BY <1>2 DEF CreateProc
<1>3. CASE CreateProcFails BY <1>3 DEF CreateProcFails, Unregister
<1>4. CASE RemoveProc BY <1>4 DEF RemoveProc
<1>5. CASE ExitUnregister BY <1>5 DEF ExitUnregister, Unregister
<1>6. CASE SafetyMemGone BY <1>6 DEF SafetyMemGone
<1> QED BY <1>1, <1>2, <1>3, <1>4, <1>5, <1>6

(* An update of the range.  Notifiers that are reading are told of the new *)
(* range before its first store.                                           *)
LEMMA UpdateStepInv ==
  ASSUME TypeInv, CMInv,
         (\E r \in Ranges : SetRangeLock(r)) \/ StoreStart \/ StoreEnd \/ SetRangeUnlock
  PROVE  CMInv'
<1> USE DEF TypeInv, TypeOK, CMInv, rangeVars, cpuVars, history
<1>1. ASSUME NEW r \in Ranges, SetRangeLock(r) PROVE CMInv'
  <2> USE <1>1 DEF SetRangeLock
  <2>1. UpdateInv' BY DEF UpdateInv
  <2>2. MemoryInv' BY DEF UpdateInv, MemoryInv
  <2>3. DuringInv' BY DEF DuringInv
  <2>4. LoadsInv' BY DEF LoadsInv
  <2>5. DecidedInv' BY DEF DecidedInv
  <2>6. IdleInv' BY DEF IdleInv
  <2> QED BY <2>1, <2>2, <2>3, <2>4, <2>5, <2>6
<1> USE DEF UpdateInv, MemoryInv, DuringInv, LoadsInv, DecidedInv, IdleInv
<1>2. CASE StoreStart BY <1>2 DEF StoreStart
<1>3. CASE StoreEnd BY <1>3 DEF StoreEnd
<1>4. CASE SetRangeUnlock BY <1>4 DEF SetRangeUnlock
<1> QED BY <1>1, <1>2, <1>3, <1>4

(* What a read of memory returns is the bound of a range in "during".      *)
LEMMA MemoryIsDuring ==
  ASSUME TypeInv, MemoryInv, DuringInv, NEW c \in Cpus, pc[c] = "test", NEW x \in Reads
  PROVE  \E r \in during[c] : Global(x) = Bound(r, x)
<1>1. inForce \in during[c] /\ (locked => target \in during[c])
  BY DEF DuringInv
<1>2. CASE x \in {"start1", "start2"}
  BY <1>1, <1>2 DEF MemoryInv, Global, Bound
<1>3. CASE x \in {"end1", "end2"}
  BY <1>1, <1>3 DEF MemoryInv, Global, Bound
<1> QED BY <1>2, <1>3 DEF Reads

LEMMA LoadStepInv ==
  ASSUME TypeInv, CMInv, NEW c \in Cpus, NEW x \in Reads, Load(c, x)
  PROVE  CMInv'
<1>1. /\ pc[c] = "test" /\ x \notin DOMAIN loads[c]
      /\ UNCHANGED <<module, user, page, rangeVars, locked, log, pc, fault, faults, history>>
  BY DEF Load
<1>2. PICK v :
        /\ v = Global(x) \/ (/\ x \in {"start2", "end2"}
                             /\ FirstOf(x) \in DOMAIN loads[c]
                             /\ v = loads[c][FirstOf(x)])
        /\ loads' = [loads EXCEPT ![c] =
                       [y \in DOMAIN @ \cup {x} |-> IF y = x THEN v ELSE @[y]]]
  BY DEF Load
<1>3. \E r \in during[c] : v = Bound(r, x)
  <2>1. CASE v = Global(x)
    BY <1>1, <2>1, MemoryIsDuring DEF CMInv
  <2>2. CASE x \in {"start2", "end2"} /\ FirstOf(x) \in DOMAIN loads[c]
             /\ v = loads[c][FirstOf(x)]
    <3>1. PICK r \in during[c] : loads[c][FirstOf(x)] = Bound(r, FirstOf(x))
      BY <1>1, <2>2 DEF CMInv, LoadsInv
    <3>2. Bound(r, FirstOf(x)) = Bound(r, x)
      BY <2>2 DEF Bound, FirstOf
    <3> QED BY <2>2, <3>1, <3>2
  <2> QED BY <1>2, <2>1, <2>2
<1>4. /\ DOMAIN loads'[c] = DOMAIN loads[c] \cup {x}
      /\ \A y \in DOMAIN loads'[c] : loads'[c][y] = IF y = x THEN v ELSE loads[c][y]
      /\ \A d \in Cpus : d # c => loads'[d] = loads[d]
  BY <1>2 DEF TypeInv
<1>5. LoadsInv'
  BY <1>1, <1>3, <1>4 DEF CMInv, LoadsInv, history
<1>6. DuringInv'
  BY <1>1, <1>4 DEF CMInv, DuringInv, history, rangeVars
<1>7. UpdateInv' /\ MemoryInv' /\ DecidedInv' /\ IdleInv'
  BY <1>1 DEF CMInv, UpdateInv, MemoryInv, DecidedInv, IdleInv, history, rangeVars
<1> QED BY <1>5, <1>6, <1>7 DEF CMInv

(* With one range in "during" all four reads returned its bounds.          *)
LEMMA DecideFollowsRange ==
  ASSUME TypeInv, CMInv, NEW c \in Cpus, Decide(c), NEW r \in during[c], during[c] = {r}
  PROVE  pc'[c] = "log" <=> KeptBy(fault[c], r)
<1>1. pc[c] = "test" /\ DOMAIN loads[c] = Reads
  BY DEF Decide
<1>2. \A x \in Reads : loads[c][x] = Bound(r, x)
  BY <1>1 DEF CMInv, LoadsInv
<1>3. /\ loads[c]["start1"] = r[1] /\ loads[c]["end1"] = r[2]
      /\ loads[c]["start2"] = r[1] /\ loads[c]["end2"] = r[2]
  BY <1>2 DEF Reads, Bound
<1>4. fault[c] \in Addresses /\ r \in Ranges
  BY <1>1 DEF TypeInv, TypeOK
<1> QED BY <1>3, <1>4, KeepsIsKeptBy DEF Decide, TypeInv, TypeOK

LEMMA NotifierStepInv ==
  ASSUME TypeInv, CMInv, NEW c \in Cpus,
         (\E f, a \in Addresses : Die(c, f, a)) \/ Decide(c) \/ LogFault(c) \/ Return(c)
  PROVE  CMInv'
<1> USE DEF TypeInv, TypeOK, CMInv, UpdateInv, MemoryInv, DuringInv, LoadsInv,
        IdleInv, rangeVars, history
<1>1. ASSUME NEW f \in Addresses, NEW a \in Addresses, Die(c, f, a) PROVE CMInv'
  BY <1>1 DEF Die, DecidedInv
<1>2. CASE Decide(c)
  <2>1. /\ pc[c] = "test" /\ pc'[c] \in {"log", "dropped"}
        /\ \A d \in Cpus : d # c => pc'[d] = pc[d]
        /\ UNCHANGED <<module, user, page, rangeVars, locked, log, fault, loads, faults, history>>
    BY <1>2 DEF Decide
  <2>2. \A r \in during[c] : during[c] = {r} => (pc'[c] = "log" <=> KeptBy(fault[c], r))
    BY <1>2, DecideFollowsRange
  <2>3. DecidedInv'
    BY <2>1, <2>2 DEF DecidedInv
  <2> QED BY <1>2, <2>1, <2>3
<1>3. CASE LogFault(c) BY <1>3 DEF LogFault, DecidedInv
<1>4. CASE Return(c) BY <1>4 DEF Return, DecidedInv, NoLoads
<1> QED BY <1>1, <1>2, <1>3, <1>4

LEMMA NextCMInv ==
  ASSUME TypeInv, CMInv, [Next]_vars
  PROVE  CMInv'
<1>1. CASE \/ Register \/ CreateProc \/ CreateProcFails \/ RemoveProc \/ ExitUnregister
           \/ SafetyMemGone
  BY <1>1, ModuleStepInv
<1>2. CASE (\E r \in Ranges : SetRangeLock(r)) \/ StoreStart \/ StoreEnd \/ SetRangeUnlock
  BY <1>2, UpdateStepInv
<1>3. ASSUME NEW c \in Cpus, NEW x \in Reads, Load(c, x) PROVE CMInv'
  BY <1>3, LoadStepInv
<1>4. ASSUME NEW c \in Cpus,
             (\E f, a \in Addresses : Die(c, f, a)) \/ Decide(c) \/ LogFault(c) \/ Return(c)
      PROVE  CMInv'
  BY <1>4, NotifierStepInv
<1>5. CASE UNCHANGED vars
  BY <1>5 DEF vars, rangeVars, cpuVars, history, CMInv, UpdateInv, MemoryInv, DuringInv,
     LoadsInv, DecidedInv, IdleInv
<1> QED BY <1>1, <1>2, <1>3, <1>4, <1>5 DEF Next

LEMMA CMInvHolds == Spec => [](TypeInv /\ CMInv)
<1>1. TypeInv /\ CMInv /\ [Next]_vars => CMInv'
  BY NextCMInv
<1> QED BY <1>1, InitTypeInv, NextTypeInv, InitCMInv, PTL DEF Spec

(***************************************************************************)
(* Type correctness: in particular the fault log never grows past          *)
(* DEMO_LOG_CAPACITY and the two globals always hold bounds.               *)
(***************************************************************************)
THEOREM TypeCorrect == Spec => []TypeOK
<1>1. TypeInv => TypeOK
  BY DEF TypeInv
<1> QED BY <1>1, CMInvHolds, PTL

(***************************************************************************)
(* The unlocked filter on program counters is exact for a range that       *)
(* stands still: a fault during whose notifier one range was in force is   *)
(* logged exactly if that range keeps its program counter, in whatever     *)
(* order the CPU reads the two globals and whether or not it reads them    *)
(* twice.                                                                  *)
(***************************************************************************)
THEOREM FilterExact == Spec => []CounterFilterExact
<1>1. CMInv => CounterFilterExact
  BY DEF CMInv, DecidedInv, CounterFilterExact, Done
<1> QED BY <1>1, CMInvHolds, PTL

(***************************************************************************)
(* How far a race with an update can go: the filter may mix two ranges,    *)
(* but each bound it has read is the bound of a range that was in force,   *)
(* or being stored, while the notifier ran.                                *)
(***************************************************************************)
THEOREM TornReadsBounded == Spec => []LoadsInv
<1>1. CMInv => LoadsInv
  BY DEF CMInv
<1> QED BY <1>1, CMInvHolds, PTL

(***************************************************************************)
(* While safety_mem is loaded and no update runs, the range is that of its *)
(* page or (0, 0), whatever range an earlier load of it left behind.       *)
(***************************************************************************)
THEOREM RangeIsCurrent == Spec => []RangeFollowsPage
<1>1. TypeInv /\ CMInv => RangeFollowsPage
  <2> SUFFICES ASSUME TypeInv, CMInv, user, ~locked
               PROVE  <<start, end>> \in {page, NoRange}
    BY DEF RangeFollowsPage
  <2>1. start = inForce[1] /\ end = inForce[2] /\ inForce \in Ranges
    BY DEF CMInv, MemoryInv, TypeInv
  <2>2. <<start, end>> = inForce
    BY <2>1, RangeParts
  <2> QED BY <2>2 DEF CMInv, UpdateInv
<1> QED BY <1>1, CMInvHolds, PTL

=============================================================================
